---- MODULE Spec2Model ----
(***************************************************************************)
(* Multi-camera reconstruction pipeline of forma-veridica: correspondence  *)
(* filtering, common-visibility filter, triangulation with confidence and  *)
(* the temporal tracking loop of the reconstruction application.           *)
(*                                                                         *)
(* Image coordinates are symbolic: the position of keypoint kp of camera   *)
(* cam in frame f is the record [cam, kp, frame, und], und telling whether *)
(* lens distortion has been removed from it.                               *)
(***************************************************************************)
EXTENDS Integers, Sequences, FiniteSets, TLC

VARIABLES
    pc,             \* position in the function or pipeline being run
    all_matches,    \* Vec<Vector<Vector<DMatch>>>: one sequence of match groups per non-reference camera
    keypoints_list, \* Vec<Vector<KeyPoint>>: the keypoints of every camera
    descriptors_list, \* Vec<Mat>: the descriptor matrix of every camera, as [cam, rows]
    matched_descriptors, \* the matcher's k-nearest-neighbour groups of the pair matched last
    camera_i,       \* index of the camera a per-camera loop is at
    filtered_matches, \* the match sequences min_visible_match_set returns
    points_2d,      \* Vector<Mat>: one N x 2 point table per camera
    outcome,        \* how the last call ended: "Ok", "Err", "Panic", or "" before any
    camera_params,  \* &[CameraParameters]: the calibrated cameras
    points_3d,      \* Vec<Point3D>: what triangulate_points_multiple returned
    total_errors,   \* the mean reprojection error of every point, in row order
    sfm_calls,      \* how often the library's triangulation routine was invoked
    sfm_input,      \* the (transposed) point tables of its last invocation
    frames,         \* Vec<Mat>: the image last read from every video
    prev_images,    \* Vec<Mat>: the images of the frame processed before
    prev_points,    \* Vec<Vector<Point2f>>: every camera's tracked points of that frame
    undistorted_points_2d, \* Vector<Mat>: the tables handed to the triangulation
    cloud,          \* PointCloud of the frame being processed
    files,          \* timestamps of the point-cloud files written
    current_frame,  \* index of the frame being processed
    total_frames,   \* video_data.total_frames: the frame-count bound of the loop
    lost_tracks,    \* reference keypoints whose track optical flow has reported lost
    imgs,           \* &Vec<Vector<Mat>>: the number of calibration images of every camera
    camera_matrix,  \* Vec<Mat>: the intrinsics of the cameras calibrate_with_charuco succeeded on
    charuco_ids,    \* Vec<Vector<Vector<i32>>>: per such camera, the corner IDs of every kept frame
    cameras,        \* Vec<CameraParameters> being built, returned, saved or loaded
    common_object_points, \* stereo input of the current pair: board points
    common_image_points1, \* stereo input of the current pair: image points of camera 0
    common_image_points2, \* stereo input of the current pair: image points of camera i
    frame_idx,      \* number of calibration frames the pair loop has been through
    fs,             \* FileStorage: the nodes of the calibration file, by key
    ply,            \* the lines of the point-cloud file, each a sequence of values
    common_ids,     \* HashSet<i32>: what find_common_points returned
    dir_entries,    \* fs::read_dir: the file names of the calibration directory, as enumerated
    num_cameras,    \* the configured number of cameras
    entry_i,        \* number of directory entries the grouping loop has been through
    camera_images,  \* Vec<Vector<Mat>>: the images grouped by camera
    all_charuco_ids, \* per calibrated camera, the images whose detections calibrate_with_charuco kept
    paired,         \* the (camera 0, camera i) detections the pair loop has intersected
    tracked,        \* the cameras whose step of the current frame has run, when the order is free
    pipeline_state, \* ReconstructionApp::pipeline_state
    project_path,   \* ProjectResources::project_path: <<>> for None, <<p>> for Some(p)
    calibration_data, \* ProjectResources::calibration_data, an Option likewise
    video_data      \* ProjectResources::video_data, an Option likewise

matchVars == <<all_matches, keypoints_list, descriptors_list, matched_descriptors,
               filtered_matches>>
triVars == <<camera_params, points_3d, total_errors, sfm_calls, sfm_input>>

pipeVars == <<frames, prev_images, prev_points, undistorted_points_2d, cloud, files,
              current_frame, total_frames, lost_tracks>>

calVars == <<imgs, camera_matrix, charuco_ids, cameras, common_object_points,
             common_image_points1, common_image_points2, frame_idx>>

groupVars == <<dir_entries, num_cameras, entry_i, camera_images, all_charuco_ids, paired>>

guiVars == <<pipeline_state, project_path, calibration_data, video_data>>

extVars == <<groupVars, tracked, guiVars>>

libVars == <<calVars, fs, ply, common_ids, extVars>>

vars == <<pc, camera_i, points_2d, outcome, matchVars, triVars, pipeVars, libVars>>

\* ------------------------------------------------------------------ bounds

MaxRefKp == 2     \* keypoints of the reference camera
MaxPairs == 2     \* non-reference cameras handed to the common-visibility filter
MaxMatches == 2   \* match groups per camera pair handed to the filter
KnnQueries == 2   \* descriptors of the reference camera handed to the matcher
KnnCameras == 3   \* cameras whose descriptors are matched against the reference
TriCameras == 3   \* point tables and cameras handed to the triangulation
TriRows == 2      \* rows of a point table handed to the triangulation
ErrPerPixel == 2  \* reprojection errors are counted in 1/ErrPerPixel pixel
MaxErr == 11      \* largest mean reprojection error, in those units
PipeCameras == 2  \* videos, and calibrated cameras, of a pipeline run
PipeKp == 2       \* keypoints SIFT finds in the reference camera's first frame
MaxFrames == 3    \* largest frame-count bound of the tracking loop
CalCameras == 3   \* image sets given to the calibration
CalFrames == 2    \* calibration images of one camera
CommonIds == 2    \* distinct corner IDs of the lists given to find_common_points
CommonLen == 2    \* longest such list
CommonLists == 2  \* most lists given at once
PlyLen == 2       \* points of a cloud given to save_point_cloud
FileCameras == 3  \* cameras of a calibration file, or of a list to save
GroupCameras == 2 \* cameras the calibration application is configured for
GroupFrames == 2  \* captures whose images may lie in the calibration directory
DirLen == 4       \* entries of the calibration directory
PairFrames == 1   \* frames both cameras of a pair kept detections of
GuiCameras == 3   \* cameras of a parameter file the application loads
GuiVideos == 2    \* files the project's video directory holds when it is fetched

\* ------------------------------------------------------------- primitives

Range(s) == {s[k] : k \in 1..Len(s)}

Min(a, b) == IF a <= b THEN a ELSE b

SeqsUpTo(S, n) == UNION {[1..k -> S] : k \in 0..n}

\* A matrix of the vision library: its dimensions and its rows.
Mat(rows, cols, data) == [rows |-> rows, cols |-> cols, data |-> data]

\* The row Mat::zeros leaves where nothing is written.
ZeroRow == [cam |-> -1, kp |-> -1, frame |-> -1, und |-> FALSE]

\* KeyPoint::pt of keypoint kp of camera cam, detected in frame 0.
KeyPointPt(cam, kp) == [cam |-> cam, kp |-> kp, frame |-> 0, und |-> FALSE]

\* The keypoint vector of camera cam holding n keypoints (0-based indices).
KeyPoints(cam, n) == [k \in 1..n |-> KeyPointPt(cam, k - 1)]

DMatch(q, t, d) == [query_idx |-> q, train_idx |-> t, distance |-> d]

\* ------------------------------------------------------ ratio-test matcher

\* k = 2 neighbours and ratio = 0.7 (in tenths), as the pipeline passes them.
NeighboursAmount == 2
RatioTenths == 7
\* Descriptor distances the matcher reports, in tenths of a distance unit.
Distances == {5, 7, 10}

RatioTestInclusive(n, ratio) ==
    Len(n) >= 2 /\ n[1].distance * 10 <= ratio * n[2].distance

\* The filter closure: n.len() >= 2 && n[0].distance < ratio * n[1].distance
RatioTest(n, ratio) ==
    Len(n) >= 2 /\ n[1].distance * 10 < ratio * n[2].distance

\* bf_match_knn once the matcher has returned its groups.
BfMatchKnn(matched, ratio) ==
    SelectSeq(matched, LAMBDA n : RatioTest(n, ratio))

\* What knn_train_match returns for one query descriptor when k neighbours
\* are asked of train_rows train descriptors: min(k, train_rows) distances
\* in ascending order; nothing to return without train descriptors.
KnnDistances(k, train_rows) ==
    IF train_rows = 0 THEN {}
    ELSE {g \in [1..Min(k, train_rows) -> Distances] :
            \A a, b \in 1..Len(g) : a <= b => g[a] <= g[b]}

\* The group of query q with neighbour distances g: its neighbours are
\* distinct train descriptors, the best one depending on q.
KnnGroupOf(q, g) == [a \in 1..Len(g) |-> DMatch(q, (q + a - 1) % Len(g), g[a])]

\* The matcher's outputs for nq query descriptors whose neighbour distances
\* are drawn from dists: one group per query, and nothing when either
\* descriptor set is empty.
KnnOutputs(nq, dists) ==
    IF nq = 0 \/ dists = {} THEN {<<>>}
    ELSE {[i \in 1..nq |-> KnnGroupOf(i - 1, gs[i])] : gs \in [1..nq -> dists]}

\* ---------------------------------------------- common-visibility filter

\* camera_matches.iter().any(|m| m.get(0).unwrap().query_idx == i)
PointHasMatch(camera_matches, i) ==
    \E k \in 1..Len(camera_matches) : camera_matches[k][1].query_idx = i

VisibleInAllCameras(matches, i) ==
    \A c \in 1..Len(matches) : PointHasMatch(matches[c], i)

\* common_points_indices: the indices i = from, from+1, .., n-1 of the
\* reference keypoints matched in every camera, pushed in increasing order.
RECURSIVE CommonPointsFrom(_, _, _)
CommonPointsFrom(matches, from, n) ==
    IF from >= n THEN <<>>
    ELSE (IF VisibleInAllCameras(matches, from) THEN <<from>> ELSE <<>>)
         \o CommonPointsFrom(matches, from + 1, n)

CommonPointsIndicesButFirst(matches, keypoints) ==
    LET common == CommonPointsFrom(matches, 0, Len(keypoints[1]))
    IN  IF common = <<>> THEN <<>> ELSE Tail(common)

CommonPointsIndices(matches, keypoints) ==
    CommonPointsFrom(matches, 0, Len(keypoints[1]))

FirstMatchLast(camera_matches, idx) ==
    LET hits == {k \in 1..Len(camera_matches) : camera_matches[k][1].query_idx = idx}
    IN  IF hits = {} THEN <<>>
        ELSE <<camera_matches[CHOOSE k \in hits : \A h \in hits : h <= k]>>

\* The inner loop over one camera's groups: the first group whose best match
\* has query index idx is pushed, then the loop breaks.
FirstMatch(camera_matches, idx) ==
    LET hits == {k \in 1..Len(camera_matches) : camera_matches[k][1].query_idx = idx}
    IN  IF hits = {} THEN <<>>
        ELSE <<camera_matches[CHOOSE k \in hits : \A h \in hits : k <= h]>>

RECURSIVE FilterCameraMatches(_, _)
FilterCameraMatches(camera_matches, common) ==
    IF common = <<>> THEN <<>>
    ELSE FirstMatch(camera_matches, Head(common))
         \o FilterCameraMatches(camera_matches, Tail(common))

MinVisibleAnyCamera(matches, keypoints) ==
    LET n == Len(keypoints[1])
        RECURSIVE anyFrom(_)
        anyFrom(from) ==
            IF from >= n THEN <<>>
            ELSE (IF \E c \in 1..Len(matches) : PointHasMatch(matches[c], from)
                  THEN <<from>> ELSE <<>>) \o anyFrom(from + 1)
    IN  [c \in 1..Len(matches) |-> FilterCameraMatches(matches[c], anyFrom(0))]

MinVisibleMatchSet(matches, keypoints) ==
    [c \in 1..Len(matches) |->
        FilterCameraMatches(matches[c], CommonPointsIndices(matches, keypoints))]

\* ------------------------------------------------- gathering point tables

\* One camera's table: num_matches zeroed rows, row j overwritten with the
\* keypoint position that group j's best match names through index field idx.
\* Not ok when a row beyond the table or a keypoint beyond the vector is named.
GatherCamera(camera_matches, keypoints, num_matches, field) ==
    IF \/ Len(camera_matches) > num_matches
       \/ \E j \in 1..Len(camera_matches) : camera_matches[j] = <<>>
       \/ \E j \in 1..Len(camera_matches) :
             camera_matches[j][1][field] + 1 \notin 1..Len(keypoints)
    THEN [ok |-> FALSE, mat |-> Mat(0, 0, <<>>)]
    ELSE [ok |-> TRUE,
          mat |-> Mat(num_matches, 2,
                      [j \in 1..num_matches |->
                          IF j <= Len(camera_matches)
                          THEN keypoints[camera_matches[j][1][field] + 1]
                          ELSE ZeroRow])]

\* gather_points_2d_from_matches: "Panic" on an empty all_matches or a
\* keypoint list shorter than the cameras named, "Err" from the first
\* failing table, otherwise "Ok" with the M + 1 tables.
GatherPoints2dFromMatches(matches, keypoints) ==
    IF Len(matches) = 0 \/ Len(keypoints) = 0
    THEN [status |-> "Panic", tables |-> <<>>]
    ELSE LET num_matches == Len(matches[1])
             table(i) ==
                 IF i = 1
                 THEN GatherCamera(matches[1], keypoints[1], num_matches, "query_idx")
                 ELSE GatherCamera(matches[i - 1], keypoints[i], num_matches, "train_idx")
             reached(i) == \A h \in 1..i - 1 : h <= Len(keypoints) /\ table(h).ok
         IN  IF \E i \in 1..Len(matches) + 1 : reached(i) /\ i > Len(keypoints)
             THEN [status |-> "Panic", tables |-> <<>>]
             ELSE IF \E i \in 1..Len(matches) + 1 : ~table(i).ok
             THEN [status |-> "Err", tables |-> <<>>]
             ELSE [status |-> "Ok",
                   tables |-> [i \in 1..Len(matches) + 1 |-> table(i).mat]]

\* ------------------------------------------ triangulation and confidence

\* The error, in pixels, at which the confidence reaches 0.
ErrorScale == 5

\* Confidence 1.0 in model units: a confidence is counted in
\* 1/(ErrorScale * ErrPerPixel), so that 1 - e/5 is exact.
ConfidenceOne == ErrorScale * ErrPerPixel

NoColor == <<>>
NoTrack == -1

ConfidenceUnclamped(avg_error) == ConfidenceOne - avg_error

\* (1.0 - (avg_error / 5.0).min(1.0)) as f32
Confidence(avg_error) == ConfidenceOne - Min(avg_error, ConfidenceOne)

\* Point3D::new: no colour and no track id.
Point3DNew(xyz, confidence) ==
    [xyz |-> xyz, color |-> NoColor, track_id |-> NoTrack, confidence |-> confidence]

TriArgumentsLax(tables, cams) ==
    /\ ~(Len(tables) < 2 \/ Len(cams) < 2)
    /\ Len(tables) = Len(cams)
    /\ \A i \in 1..Len(tables) : tables[i].cols = 2

\* The argument checks at the head of triangulate_points_multiple.
TriArgumentsOk(tables, cams) ==
    /\ ~(Len(tables) < 2 \/ Len(cams) < 2)
    /\ Len(tables) = Len(cams)
    /\ \A i \in 1..Len(tables) :
          tables[i].rows = tables[1].rows /\ tables[i].cols = 2

\* opencv::core::transpose of an N x 2 table: column i is row i of the table.
Transpose(m) == Mat(m.cols, m.rows, m.data)

\* The library's triangulation: column i of its 3 x N result is the point
\* seen at column i of every camera's 2 x N table.
SfmTriangulatePoints(converted) ==
    [i \in 1..converted[1].cols |->
        [c \in 1..Len(converted) |-> converted[c].data[i]]]

ScorePointsReversed(cols, errs, num_points) ==
    [i \in 1..num_points |-> Point3DNew(cols[num_points + 1 - i], Confidence(errs[i]))]

\* The loop `for i in 0..num_points`: point i is column i of the result,
\* scored by its mean reprojection error against row i of every table.
ScorePoints(cols, errs, num_points) ==
    [i \in 1..num_points |-> Point3DNew(cols[i], Confidence(errs[i]))]

\* triangulate_points_multiple. ext holds what the library does when it is
\* reached: proj ("Ok", "Err" from hconcat2, "Panic" from the unwrap of
\* projection_from_k_rt), tri (whether triangulate_points succeeds) and
\* errs (the mean reprojection error found for every point).
TriangulatePointsMultiple(tables, cams, ext) ==
    LET none == [status |-> "Err", points |-> <<>>, errors |-> <<>>,
                 invoked |-> FALSE, input |-> <<>>]
    IN  IF ~TriArgumentsOk(tables, cams) THEN none
        ELSE IF ext.proj # "Ok" THEN [none EXCEPT !.status = ext.proj]
        ELSE LET converted == [c \in 1..Len(tables) |-> Transpose(tables[c])]
                 called == [none EXCEPT !.invoked = TRUE, !.input = converted]
             IN  IF ~ext.tri THEN called
                 ELSE [called EXCEPT
                          !.status = "Ok",
                          !.errors = ext.errs,
                          !.points = ScorePoints(SfmTriangulatePoints(converted),
                                                 ext.errs, tables[1].rows)]

\* ----------------------------------- the filter and the gathering, called

\* A match group as the ratio test leaves it: best and second-best neighbour
\* of reference keypoint q; the best one names keypoint t of the other camera.
Group(q, t) == <<DMatch(q, t, 1), DMatch(q, t + 1, 2)>>

\* The group sequences of one camera pair: up to MaxMatches groups, the
\* group at position j naming train keypoint j - 1, any query index below n.
CameraMatchSeqs(n) ==
    {[j \in 1..Len(qs) |-> Group(qs[j], j - 1)] : qs \in SeqsUpTo(0..n - 1, MaxMatches)}

\* The state left untouched by a run that does not match descriptors.
KnnIdle ==
    /\ descriptors_list = <<>>
    /\ matched_descriptors = <<>>
    /\ camera_i = 0

\* The state left untouched by a run that does not group calibration images.
GroupIdle ==
    /\ dir_entries = <<>>
    /\ num_cameras = 0
    /\ entry_i = 0
    /\ camera_images = <<>>
    /\ all_charuco_ids = <<>>
    /\ paired = {}

\* The state left untouched by a run outside the application window.
GuiIdle ==
    /\ pipeline_state = ""
    /\ project_path = <<>>
    /\ calibration_data = <<>>
    /\ video_data = <<>>

ExtIdle ==
    /\ GroupIdle
    /\ tracked = {}
    /\ GuiIdle

\* The state left untouched by a run that neither calibrates nor touches a file.
LibIdle ==
    /\ ExtIdle
    /\ imgs = <<>>
    /\ camera_matrix = <<>>
    /\ charuco_ids = <<>>
    /\ cameras = <<>>
    /\ common_object_points = <<>>
    /\ common_image_points1 = <<>>
    /\ common_image_points2 = <<>>
    /\ frame_idx = 0
    /\ fs = <<>>
    /\ ply = <<>>
    /\ common_ids = {}

\* The state left untouched by a call made outside the pipeline.
PipeIdle ==
    /\ frames = <<>>
    /\ prev_images = <<>>
    /\ prev_points = <<>>
    /\ undistorted_points_2d = <<>>
    /\ cloud = [points |-> <<>>, timestamp |-> 0]
    /\ files = {}
    /\ current_frame = 0
    /\ total_frames = 0
    /\ lost_tracks = {}

\* The state left untouched by a run that does not triangulate.
TriIdle ==
    /\ camera_params = <<>>
    /\ points_3d = <<>>
    /\ total_errors = <<>>
    /\ sfm_calls = 0
    /\ sfm_input = <<>>

VisInit ==
    /\ pc = "vis_call"
    /\ KnnIdle
    /\ TriIdle
    /\ PipeIdle
    /\ LibIdle
    /\ \E n \in 0..MaxRefKp, m \in 0..MaxPairs :
          /\ all_matches \in [1..m -> CameraMatchSeqs(n)]
          /\ keypoints_list =
                [c \in 1..m + 1 |-> KeyPoints(c - 1, IF c = 1 THEN n ELSE MaxMatches + 1)]
    /\ filtered_matches = <<>>
    /\ points_2d = <<>>
    /\ outcome = ""

\* all_matches = min_visible_match_set(&all_matches, &keypoints_list)
VisFilter ==
    /\ pc = "vis_call"
    /\ filtered_matches' = MinVisibleMatchSet(all_matches, keypoints_list)
    /\ pc' = "vis_filtered"
    /\ UNCHANGED <<all_matches, keypoints_list, points_2d, outcome>>
    /\ UNCHANGED <<descriptors_list, matched_descriptors, camera_i, triVars, pipeVars>>
    /\ UNCHANGED libVars

\* gather_points_2d_from_matches(&all_matches, &keypoints_list) on the filtered sequences
VisGather ==
    /\ pc = "vis_filtered"
    /\ LET g == GatherPoints2dFromMatches(filtered_matches, keypoints_list)
       IN  points_2d' = g.tables /\ outcome' = g.status
    /\ pc' = "vis_gathered"
    /\ UNCHANGED <<matchVars, camera_i, triVars, pipeVars>>
    /\ UNCHANGED libVars

\* min_visible_match_set(&all_matches, &keypoints_list) once more, on what it
\* returned and the same keypoints.
VisRefilter ==
    /\ pc = "vis_filtered"
    /\ filtered_matches' = MinVisibleMatchSet(filtered_matches, keypoints_list)
    /\ pc' = "vis_refiltered"
    /\ UNCHANGED <<all_matches, keypoints_list, points_2d, outcome>>
    /\ UNCHANGED <<descriptors_list, matched_descriptors, camera_i, triVars, pipeVars>>
    /\ UNCHANGED libVars

VisNext == VisFilter \/ VisGather \/ VisRefilter

SpecVis == VisInit /\ [][VisNext]_vars

\* ------------------------------- matching every camera against the first

KnnInit ==
    /\ pc = "knn_loop"
    /\ \E nq \in 0..KnnQueries, nc \in 1..KnnCameras :
          \E rows \in [2..nc -> 0..NeighboursAmount] :
              descriptors_list =
                  [c \in 1..nc |-> [cam |-> c - 1, rows |-> IF c = 1 THEN nq ELSE rows[c]]]
    /\ all_matches = <<>>
    /\ matched_descriptors = <<>>
    /\ camera_i = 1
    /\ keypoints_list = <<>>
    /\ filtered_matches = <<>>
    /\ points_2d = <<>>
    /\ outcome = ""
    /\ TriIdle
    /\ PipeIdle
    /\ LibIdle

\* One turn of the loop `for i in 1..descriptors_list.len()`: the pair
\* (camera 0, camera i) is matched and its filtered groups are pushed, or the
\* matcher fails and the pair is skipped.
KnnMatchPair ==
    /\ pc = "knn_loop"
    /\ camera_i < Len(descriptors_list)
    /\ \/ \E raw \in KnnOutputs(descriptors_list[1].rows,
                                KnnDistances(NeighboursAmount,
                                             descriptors_list[camera_i + 1].rows)) :
             /\ matched_descriptors' = raw
             /\ all_matches' = Append(all_matches, BfMatchKnn(raw, RatioTenths))
             /\ outcome' = "Ok"
       \/ /\ matched_descriptors' = <<>>
          /\ outcome' = "Err"
          /\ UNCHANGED all_matches
    /\ camera_i' = camera_i + 1
    /\ UNCHANGED <<pc, keypoints_list, descriptors_list, filtered_matches, points_2d, triVars, pipeVars>>
    /\ UNCHANGED libVars

KnnReturn ==
    /\ pc = "knn_loop"
    /\ camera_i >= Len(descriptors_list)
    /\ pc' = "knn_done"
    /\ UNCHANGED <<matchVars, camera_i, points_2d, outcome, triVars, pipeVars>>
    /\ UNCHANGED libVars

KnnNext == KnnMatchPair \/ KnnReturn

SpecKnn == KnnInit /\ [][KnnNext]_vars

\* ------------------------------------------------------------ C6

\* The positions of the matcher's groups that pass the ratio test.
KnnKept ==
    {k \in 1..Len(matched_descriptors) :
        /\ Len(matched_descriptors[k]) >= 2
        /\ matched_descriptors[k][1].distance * 10
              < RatioTenths * matched_descriptors[k][2].distance}

\* C6: a successful bf_match_knn (k = 2, ratio = 0.7) returns exactly the
\* matcher's groups that have at least 2 neighbours and best.distance <
\* ratio * secondBest.distance, each unaltered, in the matcher's order.
C6_RatioFilter ==
    (pc \in {"knn_loop", "knn_done"} /\ outcome = "Ok") =>
        LET out == all_matches[Len(all_matches)] IN
        /\ Len(out) = Cardinality(KnnKept)
        /\ \A j \in 1..Len(out) :
              \E k \in KnnKept :
                  /\ Cardinality({h \in KnnKept : h < k}) = j - 1
                  /\ out[j] = matched_descriptors[k]

\* C6 witness: of two groups the matcher returned, the first fails the ratio
\* test exactly at the boundary (7 against 0.7 * 10) and the second passes.
C6_Witness ==
    /\ outcome = "Ok"
    /\ Len(matched_descriptors) = 2
    /\ Len(matched_descriptors[1]) = 2
    /\ matched_descriptors[1][1].distance = 7
    /\ matched_descriptors[1][2].distance = 10
    /\ KnnKept = {2}
    /\ Len(all_matches[Len(all_matches)]) = 1

\* ------------------------------------------------ triangulation, called

\* The N x 2 table (or a table of other dimensions) of camera cam.
TriTable(cam, rows, cols) ==
    Mat(rows, cols, [k \in 1..rows |-> KeyPointPt(cam, k - 1)])

CameraParams(n) == [c \in 1..n |-> [cam |-> c - 1]]

TriInit ==
    /\ pc = "tri_call"
    /\ \E nt \in 0..TriCameras, nc \in 0..TriCameras :
          /\ camera_params = CameraParams(nc)
          /\ \E dims \in [1..nt -> (0..TriRows) \X {1, 2, 3}] :
                points_2d = [t \in 1..nt |-> TriTable(t - 1, dims[t][1], dims[t][2])]
    /\ points_3d = <<>>
    /\ total_errors = <<>>
    /\ sfm_calls = 0
    /\ sfm_input = <<>>
    /\ outcome = ""
    /\ camera_i = 0
    /\ all_matches = <<>>
    /\ keypoints_list = <<>>
    /\ descriptors_list = <<>>
    /\ matched_descriptors = <<>>
    /\ filtered_matches = <<>>
    /\ PipeIdle
    /\ LibIdle

TriReturn(r) ==
    /\ points_3d' = r.points
    /\ total_errors' = r.errors
    /\ outcome' = r.status
    /\ sfm_calls' = sfm_calls + (IF r.invoked THEN 1 ELSE 0)
    /\ sfm_input' = IF r.invoked THEN r.input ELSE sfm_input
    /\ pc' = "tri_done"
    /\ UNCHANGED <<camera_i, points_2d, matchVars, camera_params, pipeVars>>

\* One call of triangulate_points_multiple(&points_2d, &camera_params).
Triangulate ==
    /\ pc = "tri_call"
    /\ \/ /\ ~TriArgumentsOk(points_2d, camera_params)
          /\ TriReturn(TriangulatePointsMultiple(points_2d, camera_params,
                [proj |-> "Ok", tri |-> TRUE, errs |-> <<>>]))
       \/ /\ TriArgumentsOk(points_2d, camera_params)
          /\ \E proj \in {"Err", "Panic"} :
                TriReturn(TriangulatePointsMultiple(points_2d, camera_params,
                    [proj |-> proj, tri |-> TRUE, errs |-> <<>>]))
       \/ /\ TriArgumentsOk(points_2d, camera_params)
          /\ TriReturn(TriangulatePointsMultiple(points_2d, camera_params,
                [proj |-> "Ok", tri |-> FALSE, errs |-> <<>>]))
       \/ /\ TriArgumentsOk(points_2d, camera_params)
          /\ \E errs \in [1..points_2d[1].rows -> 0..MaxErr] :
                TriReturn(TriangulatePointsMultiple(points_2d, camera_params,
                    [proj |-> "Ok", tri |-> TRUE, errs |-> errs]))
    /\ UNCHANGED libVars

TriNext == Triangulate

SpecTri == TriInit /\ [][TriNext]_vars

\* ------------------------------------------------------------ C3, C4, C5

\* C3: triangulate_points_multiple returns an error, emits no point and
\* never invokes the library's triangulation routine when there are fewer
\* than 2 point tables, fewer than 2 cameras, a different number of tables
\* and cameras, or a table that is not N x 2 with N the first table's rows.
C3_RejectsBadArguments ==
    (/\ pc = "tri_done"
     /\ \/ Len(points_2d) < 2
        \/ Len(camera_params) < 2
        \/ Len(points_2d) # Len(camera_params)
        \/ \E i \in 1..Len(points_2d) :
              points_2d[i].cols # 2 \/ points_2d[i].rows # points_2d[1].rows)
    => (outcome = "Err" /\ points_3d = <<>> /\ sfm_calls = 0)

\* C3 witness: three tables for three cameras, all N x 2 except the last,
\* which has a different row count, were rejected.
C3_Witness ==
    /\ pc = "tri_done"
    /\ Len(points_2d) = 3 /\ Len(camera_params) = 3
    /\ \A i \in 1..3 : points_2d[i].cols = 2
    /\ points_2d[1].rows = 2 /\ points_2d[2].rows = 2 /\ points_2d[3].rows = 1
    /\ outcome = "Err"

\* C4: every emitted point with mean reprojection error e >= 0 has
\* confidence 1 - min(e / 5.0, 1): within [0, 1], 1.0 at e = 0, exactly 0.0
\* at e >= 5.0 pixels, and never larger for a larger error.
C4_ConfidenceLaw ==
    (pc = "tri_done" /\ outcome = "Ok") =>
        /\ \A k \in 1..Len(points_3d) :
              LET e == total_errors[k]
                  conf == points_3d[k].confidence
              IN  /\ 0 <= conf /\ conf <= ConfidenceOne
                  /\ e = 0 => conf = ConfidenceOne
                  /\ e >= ErrorScale * ErrPerPixel => conf = 0
                  /\ e < ErrorScale * ErrPerPixel =>
                        conf * ErrorScale * ErrPerPixel =
                            ConfidenceOne * (ErrorScale * ErrPerPixel - e)
        /\ \A j, k \in 1..Len(points_3d) :
              total_errors[j] <= total_errors[k] =>
                  points_3d[j].confidence >= points_3d[k].confidence

\* C4 witness: two points were emitted, one with an error above 5 pixels and
\* one with an error strictly between 0 and 5 pixels.
C4_Witness ==
    /\ pc = "tri_done" /\ outcome = "Ok"
    /\ Len(points_3d) = 2
    /\ total_errors[1] > ErrorScale * ErrPerPixel
    /\ total_errors[2] > 0 /\ total_errors[2] < ErrorScale * ErrPerPixel

\* C5: on success there are exactly N points for N input rows; the k-th
\* point is the one triangulated from row k of every camera's table, its
\* confidence is the one of the error measured against row k, and it
\* carries no colour and no track id.
C5_OnePointPerRow ==
    (pc = "tri_done" /\ outcome = "Ok") =>
        /\ Len(points_3d) = points_2d[1].rows
        /\ Len(total_errors) = points_2d[1].rows
        /\ \A k \in 1..Len(points_3d) :
              /\ points_3d[k].xyz = [c \in 1..Len(points_2d) |-> points_2d[c].data[k]]
              /\ points_3d[k].confidence = Confidence(total_errors[k])
              /\ points_3d[k].color = NoColor
              /\ points_3d[k].track_id = NoTrack

\* C5 witness: two rows seen by three cameras gave two points of different
\* confidence.
C5_Witness ==
    /\ pc = "tri_done" /\ outcome = "Ok"
    /\ Len(points_2d) = 3
    /\ Len(points_3d) = 2
    /\ points_3d[1].confidence # points_3d[2].confidence

\* ------------------------------------------------------------ C1, C2

\* The reference (query) feature index of the group at position j.
QueryAt(seq, j) == seq[j][1].query_idx

\* The reference features matched in every input sequence.
CommonVisible ==
    {i \in 0..Len(keypoints_list[1]) - 1 :
        \A c \in 1..Len(all_matches) :
            \E k \in 1..Len(all_matches[c]) : QueryAt(all_matches[c], k) = i}

VisFiltered == pc \in {"vis_filtered", "vis_gathered"}

\* C1: after min_visible_match_set all M returned sequences have one length
\* and the same reference feature index at every position j; with at least
\* one non-reference camera, gather_points_2d_from_matches then yields M + 1
\* tables of that many rows, row j of the reference table being reference
\* keypoint q_j and row j of camera i's table being the keypoint of camera i
\* that an input match of q_j names.
C1_RowAlignment ==
    LET M == Len(all_matches) IN
    /\ VisFiltered =>
          /\ Len(filtered_matches) = M
          /\ \A c, d \in 1..M :
                /\ Len(filtered_matches[c]) = Len(filtered_matches[d])
                /\ \A j \in 1..Len(filtered_matches[c]) :
                      QueryAt(filtered_matches[c], j) = QueryAt(filtered_matches[d], j)
    /\ (pc = "vis_gathered" /\ M >= 1) =>
          /\ outcome = "Ok"
          /\ Len(points_2d) = M + 1
          /\ \A i \in 1..M + 1 :
                /\ points_2d[i].rows = Len(filtered_matches[1])
                /\ points_2d[i].cols = 2
                /\ Len(points_2d[i].data) = points_2d[i].rows
          /\ \A j \in 1..Len(filtered_matches[1]) :
                LET q == QueryAt(filtered_matches[1], j) IN
                /\ points_2d[1].data[j] = KeyPointPt(0, q)
                /\ \A i \in 2..M + 1 :
                      \E k \in 1..Len(all_matches[i - 1]) :
                          /\ QueryAt(all_matches[i - 1], k) = q
                          /\ points_2d[i].data[j] =
                                KeyPointPt(i - 1, all_matches[i - 1][k][1].train_idx)

\* C1 witness: two non-reference cameras whose input sequences list the two
\* common reference features in opposite orders, gathered into three tables
\* of two aligned rows.
C1_Witness ==
    /\ pc = "vis_gathered"
    /\ Len(all_matches) = 2
    /\ Len(points_2d) = 3
    /\ points_2d[1].rows = 2
    /\ Len(all_matches[1]) = 2 /\ Len(all_matches[2]) = 2
    /\ QueryAt(all_matches[1], 1) = QueryAt(all_matches[2], 2)
    /\ QueryAt(all_matches[1], 2) = QueryAt(all_matches[2], 1)
    /\ QueryAt(all_matches[1], 1) # QueryAt(all_matches[1], 2)

\* C2: for each of the M cameras min_visible_match_set returns matches for
\* exactly the reference indices 0 <= i < N that occur as query index in
\* every input sequence, one match per such index, and that match is the
\* first one with this query index in the camera's input order.
C2_MinVisibleExact ==
    VisFiltered =>
        \A c \in 1..Len(all_matches) :
            LET out == filtered_matches[c]
                inp == all_matches[c]
            IN  /\ {QueryAt(out, j) : j \in 1..Len(out)} = CommonVisible
                /\ Len(out) = Cardinality(CommonVisible)
                /\ \A j \in 1..Len(out) :
                      \E k \in 1..Len(inp) :
                          /\ out[j] = inp[k]
                          /\ QueryAt(inp, k) = QueryAt(out, j)
                          /\ \A h \in 1..k - 1 : QueryAt(inp, h) # QueryAt(out, j)

\* C2 witness: a camera lists a common reference index twice, and another
\* reference index is dropped because some camera never matched it.
C2_Witness ==
    /\ pc = "vis_filtered"
    /\ Len(all_matches) = 2
    /\ CommonVisible # {}
    /\ \E c \in 1..2 : \E h, k \in 1..Len(all_matches[c]) :
          /\ h < k
          /\ QueryAt(all_matches[c], h) = QueryAt(all_matches[c], k)
          /\ QueryAt(all_matches[c], h) \in CommonVisible
    /\ \E c \in 1..2 : \E k \in 1..Len(all_matches[c]) :
          QueryAt(all_matches[c], k) \notin CommonVisible

\* ------------------------------------------------------------ C20

\* C20: min_visible_match_set applied to its own output, with the same
\* reference keypoints and the same cameras, returns sequences identical to
\* that output: as many sequences, each with the same groups in the same
\* order.
C20_FilterIdempotent ==
    [][pc' = "vis_refiltered" =>
          /\ Len(filtered_matches') = Len(filtered_matches)
          /\ \A c \in 1..Len(filtered_matches) :
                /\ Len(filtered_matches'[c]) = Len(filtered_matches[c])
                /\ \A j \in 1..Len(filtered_matches[c]) :
                      filtered_matches'[c][j] = filtered_matches[c][j]]_vars

\* C20 witness: the filter has been applied a second time to a result of two
\* sequences of two groups each, which the first application had put in
\* another order than the input's for one camera.
C20_Witness ==
    /\ pc = "vis_refiltered"
    /\ Len(all_matches) = 2
    /\ Len(filtered_matches) = 2
    /\ Len(filtered_matches[1]) = 2 /\ Len(filtered_matches[2]) = 2
    /\ \E c \in 1..2 : QueryAt(all_matches[c], 1) > QueryAt(all_matches[c], 2)
    /\ \E c \in 1..2 : filtered_matches[c] # all_matches[c]

\* ------------------------------------------------ images and tracking

\* The image of frame number frame of camera cam's video.
Image(cam, frame) == [cam |-> cam, frame |-> frame]

\* What VideoCapture::read leaves in the Mat when no frame could be grabbed.
EmptyImage(cam) == Image(cam, -1)

IsEmptyImage(img) == img.frame < 0

\* read_frames when no read throws: got[c] is the bool VideoCapture::read
\* returns for camera c, which read_frames drops.
ReadFrames(old_frames, got, frame) ==
    [c \in 1..Len(old_frames) |->
        IF got[c] THEN Image(c - 1, frame) ELSE EmptyImage(c - 1)]

\* The cameras, in order, whose image SIFT processed; the others are skipped.
SiftSurvivors(images, sift_ok) ==
    SelectSeq([i \in 1..Len(images) |-> i], LAMBDA i : sift_ok[i])

\* What one bf_match_knn call of the pipeline gives: an error, or the groups
\* that pass the ratio test among those the matcher found.
KnnResult(ok, raw) ==
    [ok |-> ok, groups |-> IF ok THEN BfMatchKnn(raw, RatioTenths) ELSE <<>>]

RECURSIVE PushMatches(_, _)
PushMatches(results, i) ==
    IF i > Len(results) THEN <<>>
    ELSE (IF results[i].ok THEN <<results[i].groups>> ELSE <<>>)
         \o PushMatches(results, i + 1)

\* match_first_camera_features_to_all: the keypoints and descriptors of the
\* cameras SIFT did not fail on, and the matches of the pairs bf_match_knn
\* did not fail on; a panic at descriptors_list[0] when SIFT failed on all.
\* nkp[i] is the number of keypoints of image i, results[j] the matching of
\* (descriptors_list[0], descriptors_list[j]).
MatchFirstCameraFeaturesToAll(images, sift_ok, nkp, results) ==
    LET surv == SiftSurvivors(images, sift_ok)
        kps == [j \in 1..Len(surv) |-> KeyPoints(images[surv[j]].cam, nkp[surv[j]])]
        descs == [j \in 1..Len(surv) |->
                    [cam |-> images[surv[j]].cam, rows |-> nkp[surv[j]]]]
    IN  IF Len(surv) = 0
        THEN [status |-> "Panic", all_matches |-> <<>>, keypoints_list |-> kps,
              descriptors_list |-> descs]
        ELSE [status |-> "Ok", all_matches |-> PushMatches(results, 2),
              keypoints_list |-> kps, descriptors_list |-> descs]

\* undistort_points on one point: the same point, distortion removed.
UndistortPoint(pt) == [pt EXCEPT !.und = TRUE]

UndistortPointsSingleCameraRaw(points) == Mat(points.rows, 2, points.data)

\* undistort_points_single_camera when the library accepts the table.
UndistortPointsSingleCamera(points) ==
    Mat(points.rows, 2, [j \in 1..points.rows |-> UndistortPoint(points.data[j])])

\* The Point2f vector seeded from a frame-0 table.
SeedPoints(table) == [j \in 1..table.rows |-> table.data[j]]

NextPointsDropLost(prev_pts, status, frame) ==
    LET kept == SelectSeq([j \in 1..Len(prev_pts) |-> j], LAMBDA j : status[j] = 1)
    IN  [k \in 1..Len(kept) |-> [prev_pts[kept[k]] EXCEPT !.frame = frame]]

NextPointsStale(prev_pts, status, frame) == prev_pts

\* next_points of calc_optical_flow_pyr_lk as the loop keeps them: one
\* point per previous point, where the library located it in the new frame,
\* whatever the status flag says.
NextPoints(prev_pts, status, frame) ==
    [j \in 1..Len(prev_pts) |-> [prev_pts[j] EXCEPT !.frame = frame]]

\* vector_point2f_to_mat
VectorPoint2fToMat(points) == Mat(Len(points), 2, points)

AddColorToPointCloudReversed(points, distorted_points, ref_image) ==
    [i \in 1..Len(points) |->
        IF IsEmptyImage(ref_image) THEN points[i]
        ELSE [points[i] EXCEPT
                 !.color = <<ref_image, distorted_points[1].data[Len(points) + 1 - i]>>]]

\* add_color_to_point_cloud: point i takes the colour of ref_image at row i
\* of the first table of distorted_points when that lies inside the image.
AddColorToPointCloud(points, distorted_points, ref_image) ==
    [i \in 1..Len(points) |->
        IF IsEmptyImage(ref_image) THEN points[i]
        ELSE [points[i] EXCEPT
                 !.color = <<ref_image, distorted_points[1].data[i]>>]]

\* The threshold 0.25 of the pipeline, in hundredths.
ConfidenceThreshold == 25

FilterPointCloudKeepAll(points, threshold) == points

\* filter_point_cloud_by_confindence
FilterPointCloudByConfidence(points, threshold) ==
    SelectSeq(points, LAMBDA q : q.confidence * 100 >= threshold * ConfidenceOne)

\* ------------------------------------------------------ run_pipeline

\* The neighbour distances of the pipeline's matcher runs: a group that
\* passes the ratio test and one that fails it.
PipeDistances == {<<5, 10>>, <<7, 10>>}

\* The mean reprojection errors of the pipeline's triangulations: none, and
\* one leaving a confidence of 0.2.
PipeErrors == {0, ConfidenceOne - ErrPerPixel}

Init ==
    /\ pc = "start"
    /\ LibIdle
    /\ \E nv \in 1..PipeCameras, nc \in 1..PipeCameras :
          /\ frames = [c \in 1..nv |-> EmptyImage(c - 1)]
          /\ camera_params = CameraParams(nc)
    /\ total_frames \in 0..MaxFrames
    /\ current_frame = 0
    /\ prev_images = <<>>
    /\ prev_points = <<>>
    /\ undistorted_points_2d = <<>>
    /\ cloud = [points |-> <<>>, timestamp |-> 0]
    /\ files = {}
    /\ lost_tracks = {}
    /\ points_2d = <<>>
    /\ points_3d = <<>>
    /\ total_errors = <<>>
    /\ sfm_calls = 0
    /\ sfm_input = <<>>
    /\ outcome = ""
    /\ camera_i = 0
    /\ all_matches = <<>>
    /\ keypoints_list = <<>>
    /\ descriptors_list = <<>>
    /\ matched_descriptors = <<>>
    /\ filtered_matches = <<>>

\* run_pipeline returns (Ok or Err) or panics.
PipeEnd(how) ==
    /\ pc' = "done"
    /\ outcome' = how

\* Opening the captures and reading frame 0.
PipeStart ==
    /\ pc = "start"
    /\ \/ /\ PipeEnd("Err")
          /\ UNCHANGED frames
       \/ /\ \E got \in [1..Len(frames) -> BOOLEAN] :
                frames' = ReadFrames(frames, got, 0)
          /\ pc' = "correspond"
          /\ UNCHANGED outcome
    /\ UNCHANGED <<camera_i, points_2d, matchVars, triVars, prev_images, prev_points,
                   undistorted_points_2d, cloud, files, current_frame, total_frames,
                   lost_tracks>>
    /\ UNCHANGED libVars

PipeCorrespondReturn(m) ==
    LET filtered == MinVisibleMatchSet(m.all_matches, m.keypoints_list)
        g == GatherPoints2dFromMatches(filtered, m.keypoints_list)
    IN  /\ keypoints_list' = m.keypoints_list
        /\ descriptors_list' = m.descriptors_list
        /\ IF m.status = "Panic"
           THEN /\ PipeEnd("Panic")
                /\ UNCHANGED <<all_matches, points_2d>>
           ELSE /\ all_matches' = filtered
                /\ points_2d' = g.tables
                /\ IF g.status = "Ok"
                   THEN pc' = "undistort0" /\ UNCHANGED outcome
                   ELSE PipeEnd(IF g.status = "Err" THEN "ErrGather" ELSE "Panic")

\* Features of every first frame, matching against camera 0, the
\* common-visibility filter and the gathering of the point tables.
PipeCorrespond ==
    /\ pc = "correspond"
    /\ \E sift_ok \in [1..Len(frames) -> BOOLEAN], n0 \in 0..PipeKp :
          /\ \A c \in 1..Len(frames) : IsEmptyImage(frames[c]) => ~sift_ok[c]
          /\ LET nkp == [c \in 1..Len(frames) |->
                            IF c = SiftSurvivors(frames, sift_ok)[1]
                            THEN n0 ELSE NeighboursAmount]
                 pairs == 2..Len(SiftSurvivors(frames, sift_ok))
                 outs == {KnnResult(FALSE, <<>>)} \cup
                         {KnnResult(TRUE, raw) : raw \in KnnOutputs(n0, PipeDistances)}
             IN  IF Len(SiftSurvivors(frames, sift_ok)) = 0
                 THEN PipeCorrespondReturn(
                          MatchFirstCameraFeaturesToAll(frames, sift_ok,
                              [c \in 1..Len(frames) |-> 0], <<>>))
                 ELSE \E results \in [pairs -> outs] :
                          PipeCorrespondReturn(
                              MatchFirstCameraFeaturesToAll(frames, sift_ok, nkp,
                                  [j \in 1..Len(SiftSurvivors(frames, sift_ok)) |->
                                      IF j = 1 THEN KnnResult(FALSE, <<>>) ELSE results[j]]))
    /\ UNCHANGED <<camera_i, matched_descriptors, filtered_matches, triVars, pipeVars>>
    /\ UNCHANGED libVars

\* The loop undistorting every frame-0 table with camera_params[i].
PipeUndistort0 ==
    /\ pc = "undistort0"
    /\ \/ /\ Len(points_2d) > Len(camera_params)
          /\ PipeEnd("Panic")
          /\ UNCHANGED undistorted_points_2d
       \/ /\ PipeEnd("Err")
          /\ UNCHANGED undistorted_points_2d
       \/ /\ Len(points_2d) <= Len(camera_params)
          /\ undistorted_points_2d' =
                [i \in 1..Len(points_2d) |-> UndistortPointsSingleCamera(points_2d[i])]
          /\ pc' = "triangulate"
          /\ UNCHANGED outcome
    /\ UNCHANGED <<camera_i, points_2d, matchVars, triVars, frames, prev_images,
                   prev_points, cloud, files, current_frame, total_frames, lost_tracks>>
    /\ UNCHANGED libVars

PipeTriangulateReturn(r) ==
    /\ points_3d' = r.points
    /\ total_errors' = r.errors
    /\ sfm_calls' = sfm_calls + (IF r.invoked THEN 1 ELSE 0)
    /\ sfm_input' = IF r.invoked THEN r.input ELSE sfm_input
    /\ IF r.status = "Ok"
       THEN pc' = "cloud" /\ UNCHANGED outcome
       ELSE PipeEnd(r.status)

\* triangulate_points_multiple(&undistorted_points_2d, &camera_params) of
\* frame 0 and of every tracked frame.
PipeTriangulate ==
    /\ pc = "triangulate"
    /\ \/ /\ ~TriArgumentsOk(undistorted_points_2d, camera_params)
          /\ PipeTriangulateReturn(
                TriangulatePointsMultiple(undistorted_points_2d, camera_params,
                    [proj |-> "Ok", tri |-> TRUE, errs |-> <<>>]))
       \/ /\ TriArgumentsOk(undistorted_points_2d, camera_params)
          /\ \E proj \in {"Err", "Panic"} :
                PipeTriangulateReturn(
                    TriangulatePointsMultiple(undistorted_points_2d, camera_params,
                        [proj |-> proj, tri |-> TRUE, errs |-> <<>>]))
       \/ /\ TriArgumentsOk(undistorted_points_2d, camera_params)
          /\ PipeTriangulateReturn(
                TriangulatePointsMultiple(undistorted_points_2d, camera_params,
                    [proj |-> "Ok", tri |-> FALSE, errs |-> <<>>]))
       \/ /\ TriArgumentsOk(undistorted_points_2d, camera_params)
          /\ \E errs \in [1..undistorted_points_2d[1].rows -> PipeErrors] :
                PipeTriangulateReturn(
                    TriangulatePointsMultiple(undistorted_points_2d, camera_params,
                        [proj |-> "Ok", tri |-> TRUE, errs |-> errs]))
    /\ UNCHANGED <<camera_i, points_2d, matchVars, camera_params, pipeVars>>
    /\ UNCHANGED libVars

\* The reference keypoints of the rows that status reports as lost.
LostRows(status) ==
    {points_2d[1].data[j].kp : j \in {k \in DOMAIN status : status[k] = 0}}

\* The cloud no iteration of the loop holds.
NoCloud == [points |-> <<>>, timestamp |-> 0]

\* The cloud of the current frame: points_3d moved into it, coloured from
\* frames[0] at the frame-0 positions of the first table, then filtered.
PipeCloud ==
    /\ pc = "cloud"
    /\ cloud' = [points |-> FilterPointCloudByConfidence(
                                AddColorToPointCloud(points_3d, points_2d, frames[1]),
                                ConfidenceThreshold),
                 timestamp |-> current_frame]
    /\ points_3d' = <<>>
    /\ total_errors' = <<>>
    /\ pc' = "save"
    /\ UNCHANGED <<camera_i, points_2d, outcome, matchVars, camera_params, sfm_calls,
                   sfm_input, frames, prev_images, prev_points, undistorted_points_2d,
                   files, current_frame, total_frames, lost_tracks>>
    /\ UNCHANGED libVars

\* Saving the cloud as point_cloud_{current_frame}.ply (a failure is only
\* logged), then the seeding of prev_points after frame 0, the end of the
\* iteration, where the loop's cloud goes out of scope, and the head of
\* `for current_frame in 1..video_data.total_frames`.
PipeSave ==
    /\ pc = "save"
    /\ \/ /\ current_frame = 0
          /\ PipeEnd("Err")
          /\ UNCHANGED <<files, prev_images, prev_points, current_frame, cloud>>
       \/ /\ \E saved \in BOOLEAN :
                files' = IF saved THEN files \cup {current_frame} ELSE files
          /\ prev_images' = frames
          /\ prev_points' =
                IF current_frame = 0
                THEN [c \in 1..Len(camera_params) |-> SeedPoints(points_2d[c])]
                ELSE prev_points
          /\ cloud' = IF current_frame = 0 THEN cloud ELSE NoCloud
          /\ IF current_frame + 1 < total_frames
             THEN /\ current_frame' = current_frame + 1
                  /\ pc' = "read"
                  /\ UNCHANGED outcome
             ELSE /\ PipeEnd("Ok")
                  /\ UNCHANGED current_frame
    /\ UNCHANGED <<camera_i, points_2d, matchVars, triVars, frames,
                   undistorted_points_2d, total_frames, lost_tracks>>
    /\ UNCHANGED libVars

\* read_frames at the top of the loop body.
PipeReadFrames ==
    /\ pc = "read"
    /\ \/ /\ PipeEnd("Err")
          /\ UNCHANGED <<frames, camera_i, undistorted_points_2d>>
       \/ /\ \E got \in [1..Len(frames) -> BOOLEAN] :
                frames' = ReadFrames(frames, got, current_frame)
          /\ camera_i' = 0
          /\ undistorted_points_2d' = <<>>
          /\ pc' = "track"
          /\ UNCHANGED outcome
    /\ UNCHANGED <<points_2d, matchVars, triVars, prev_images, prev_points, cloud,
                   files, current_frame, total_frames, lost_tracks>>
    /\ UNCHANGED libVars

\* One turn of `for (camera_i, (prev, next)) in prev_images.iter().zip(frames.iter())`:
\* optical flow from prev to next, conversion, undistortion, push, and the
\* replacement of prev_points[camera_i].
PipeTrackCamera ==
    /\ pc = "track"
    /\ LET c == camera_i + 1
       IN  IF c > Len(prev_points)
           THEN /\ PipeEnd("Panic")
                /\ UNCHANGED <<camera_i, prev_points, undistorted_points_2d, lost_tracks>>
           ELSE \/ /\ \/ IsEmptyImage(prev_images[c])
                      \/ IsEmptyImage(frames[c])
                      \/ Len(prev_points[c]) = 0
                   /\ PipeEnd("Panic")
                   /\ UNCHANGED <<camera_i, prev_points, undistorted_points_2d, lost_tracks>>
                \/ /\ PipeEnd("Err")
                   /\ UNCHANGED <<camera_i, prev_points, undistorted_points_2d, lost_tracks>>
                \/ \E status \in [1..Len(prev_points[c]) -> {0, 1}] :
                      LET next_points == NextPoints(prev_points[c], status, current_frame)
                          points_mat == VectorPoint2fToMat(next_points)
                      IN  /\ undistorted_points_2d' =
                                Append(undistorted_points_2d,
                                       UndistortPointsSingleCamera(points_mat))
                          /\ prev_points' = [prev_points EXCEPT ![c] = next_points]
                          /\ lost_tracks' = lost_tracks \cup LostRows(status)
                          /\ camera_i' = c
                          /\ pc' = IF c = Len(frames) THEN "triangulate" ELSE "track"
                          /\ UNCHANGED outcome
    /\ UNCHANGED <<points_2d, matchVars, triVars, frames, prev_images, cloud, files,
                   current_frame, total_frames>>
    /\ UNCHANGED libVars

Next ==
    \/ PipeStart
    \/ PipeCorrespond
    \/ PipeUndistort0
    \/ PipeTriangulate
    \/ PipeCloud
    \/ PipeSave
    \/ PipeReadFrames
    \/ PipeTrackCamera

Spec == Init /\ [][Next]_vars

\* ------------------------------------------- properties of run_pipeline

\* The correspondence step has run and no reference feature is matched in
\* every other camera.
NoCommonPoints ==
    /\ pc \notin {"start", "correspond"}
    /\ Len(all_matches) >= 1
    /\ \A i \in 1..Len(all_matches) : Len(all_matches[i]) = 0

\* C7: when the common-visibility set is empty the pipeline has stopped with
\* an explicit "no common points" condition, the triangulation routine was
\* never invoked and no point cloud was written.
C7_StopsOnEmptyCommonSet ==
    NoCommonPoints =>
        /\ pc = "done"
        /\ outcome = "NoCommonPoints"
        /\ sfm_calls = 0
        /\ files = {}

\* The tables of a tracked frame are about to be triangulated.
TrackedTablesReady == pc = "triangulate" /\ current_frame >= 1

\* C8: no row of a tracked table handed to triangulation, and no column
\* the triangulation routine received for a tracked frame, belongs to a
\* track that optical flow has reported lost in some camera.
C8_LostPointsDropped ==
    /\ TrackedTablesReady =>
          \A c \in 1..Len(undistorted_points_2d) :
             \A j \in 1..undistorted_points_2d[c].rows :
                points_2d[1].data[j].kp \notin lost_tracks
    /\ (pc = "cloud" /\ current_frame >= 1) =>
          \A i \in 1..sfm_input[1].cols :
             points_2d[1].data[i].kp \notin lost_tracks

\* C9: from frame 1 on, every tracked table pushed for triangulation and
\* every prev_points vector has as many rows as the frame-0 table of its
\* camera, whatever status flags optical flow returned.
C9_LostPointsRetained ==
    current_frame >= 1 =>
        /\ \A c \in 1..Len(undistorted_points_2d) :
              /\ undistorted_points_2d[c].rows = points_2d[c].rows
              /\ undistorted_points_2d[c].cols = 2
        /\ \A c \in 1..Len(prev_points) :
              Len(prev_points[c]) = points_2d[c].rows

\* Every camera of a frame after the first has been tracked, two points
\* were seeded, optical flow reported one of them lost, and both rows are in
\* the tables awaiting triangulation.
C9_Witness ==
    /\ TrackedTablesReady
    /\ Len(undistorted_points_2d) = 2
    /\ points_2d[1].rows = 2
    /\ Cardinality(lost_tracks) = 1
    /\ \A c \in 1..2 :
          /\ undistorted_points_2d[c].rows = 2
          /\ Len(prev_points[c]) = 2
          /\ \A j \in 1..2 : prev_points[c][j].frame = current_frame

\* A video source was exhausted inside the tracking loop: the last
\* read_frames left an empty frame for some camera.
EndOfStreamInLoop ==
    /\ current_frame >= 1
    /\ \E c \in 1..Len(frames) : IsEmptyImage(frames[c])

\* C10: once a read inside the tracking loop has failed, the loop has ended
\* normally: the empty frame is not tracked, and the run neither returns an
\* error nor panics.
C10_EndOfStreamEndsLoop ==
    EndOfStreamInLoop => (pc = "done" /\ outcome = "Ok")

\* output holds exactly the points of input whose confidence reaches
\* threshold, each unmodified, in their order in input.
ExactlyKept(input, output, threshold) ==
    LET K == {i \in 1..Len(input) :
                 input[i].confidence * 100 >= threshold * ConfidenceOne}
    IN  /\ Len(output) = Cardinality(K)
        /\ \E f \in [1..Len(output) -> K] :
              /\ \A a, b \in 1..Len(output) : a < b => f[a] < f[b]
              /\ \A k \in 1..Len(output) : output[k] = input[f[k]]

\* C11: the cloud built for a frame holds exactly the coloured points of
\* that frame whose confidence is at least 0.25, unmodified and in order,
\* and whenever a cloud file is written, every point of the cloud written
\* has confidence at least 0.25.
C11_FilterBeforeSave ==
    [][/\ pc = "cloud" =>
             ExactlyKept(AddColorToPointCloud(points_3d, points_2d, frames[1]),
                         cloud'.points, ConfidenceThreshold)
       /\ files' # files =>
             /\ cloud.timestamp = current_frame
             /\ \A i \in 1..Len(cloud.points) :
                   cloud.points[i].confidence * 100
                       >= ConfidenceThreshold * ConfidenceOne]_vars

\* A tracked frame's cloud is about to be saved after the frame-0 cloud
\* was: two points were triangulated, one was filtered out and one kept.
C11_Witness ==
    /\ pc = "save"
    /\ current_frame >= 1
    /\ 0 \in files
    /\ sfm_input[1].cols = 2
    /\ Len(cloud.points) = 1

\* ------------------------------------------------------ calibration

\* The state a run outside matching, triangulation and the pipeline leaves
\* untouched.
ReconstructionIdle ==
    /\ KnnIdle
    /\ TriIdle
    /\ PipeIdle
    /\ all_matches = <<>>
    /\ keypoints_list = <<>>
    /\ filtered_matches = <<>>
    /\ points_2d = <<>>

\* Mat::default()
MatDefault == Mat(0, 0, [kind |-> "empty"])

\* Mat::eye(3, 3, CV_64F) and Mat::zeros(3, 1, CV_64F)
Eye3 == Mat(3, 3, [kind |-> "eye"])
Zeros31 == Mat(3, 1, [kind |-> "zeros"])

\* The matrices calibrate_camera finds for the camera of image set cam.
Intrinsic(cam) == Mat(3, 3, [kind |-> "intrinsic", cam |-> cam])
Distortion(cam) == Mat(1, 5, [kind |-> "distortion", cam |-> cam])

\* What stereo_calibrate finds for the pair (first, second): the pose of
\* the second camera relative to the first, and the pair's E and F.
StereoMat(kind, first, second) ==
    Mat(3, IF kind = "T" THEN 1 ELSE 3,
        [kind |-> kind, first |-> first, second |-> second])

CameraParametersEmpty ==
    [intrinsic |-> MatDefault, distortion |-> MatDefault,
     rotation |-> MatDefault, translation |-> MatDefault,
     essential_matrix |-> MatDefault, fundamental_matrix |-> MatDefault]

\* CameraParameters::new
CameraParametersNew ==
    [intrinsic |-> MatDefault, distortion |-> MatDefault,
     rotation |-> Eye3, translation |-> Zeros31,
     essential_matrix |-> MatDefault, fundamental_matrix |-> MatDefault]

\* The camera an intrinsic matrix was calibrated for.
CamOf(m) == m.data.cam

\* The fewest common corner IDs a frame needs to enter a pair's stereo input.
MinCommonIds == 10

\* The corner IDs a, a + 1, ..., b in detection order.
Ids(a, b) == [k \in 1..(b - a + 1) |-> a + k - 1]

\* The ID lists the detector gives for a calibration frame: two lists of
\* MinCommonIds IDs that share all but one.
CalIdLists == {Ids(1, MinCommonIds), Ids(2, MinCommonIds + 1)}

RECURSIVE IntersectFrom(_, _, _)
IntersectFrom(lists, i, acc) ==
    IF i > Len(lists) THEN acc
    ELSE IntersectFrom(lists, i + 1, acc \cap Range(lists[i]))

FindCommonPointsUnion(lists) == UNION {Range(lists[i]) : i \in 1..Len(lists)}

\* find_common_points: nothing for no list, else the IDs of the first list
\* intersected with those of every further list in turn.
FindCommonPoints(lists) ==
    IF Len(lists) = 0 THEN {}
    ELSE IntersectFrom(lists, 2, Range(lists[1]))

\* The positions (from 0) of the IDs of ids that are in common.
CommonPositions(ids, common) ==
    LET pos == SelectSeq([k \in 1..Len(ids) |-> k], LAMBDA k : ids[k] \in common)
    IN  [k \in 1..Len(pos) |-> pos[k] - 1]

\* select_rows
SelectRows(src, indices) ==
    Mat(Len(indices), src.cols, [k \in 1..Len(indices) |-> src.data[indices[k] + 1]])

\* The board points and the image points match_image_points gives for the
\* corners detected in frame f of camera cam: one row per detected ID.
ObjectPoints(ids) ==
    Mat(Len(ids), 1, [k \in 1..Len(ids) |-> [board |-> ids[k]]])
ImagePoints(cam, f, ids) ==
    Mat(Len(ids), 1, [k \in 1..Len(ids) |-> [cam |-> cam, frame |-> f, id |-> ids[k]]])

TooFewCommonInclusive(common) == Cardinality(common) <= MinCommonIds

\* `if common.len() < 10`
TooFewCommon(common) == Cardinality(common) < MinCommonIds

\* ------------------------------ calibrate_multiple_with_charuco, called

CalInit ==
    /\ pc = "cal_call"
    /\ \E n \in 0..CalCameras : imgs \in [1..n -> {0, CalFrames}]
    /\ camera_matrix = <<>>
    /\ charuco_ids = <<>>
    /\ cameras = <<>>
    /\ common_object_points = <<>>
    /\ common_image_points1 = <<>>
    /\ common_image_points2 = <<>>
    /\ frame_idx = 0
    /\ fs = <<>>
    /\ ply = <<>>
    /\ common_ids = {}
    /\ outcome = ""
    /\ ReconstructionIdle
    /\ ExtIdle

\* The variables no step of the calibration or of the file functions changes.
NotCalibration == <<points_2d, matchVars, triVars, pipeVars, ply, common_ids, extVars>>

CalEnd(how) ==
    /\ pc' = "cal_done"
    /\ outcome' = how

\* `if imgs.len() < 2 { return Ok(vec![]) }`
CalCheck ==
    /\ pc = "cal_call"
    /\ IF Len(imgs) < 2
       THEN CalEnd("Ok")
       ELSE pc' = "cal_single" /\ UNCHANGED outcome
    /\ UNCHANGED <<camera_i, calVars, fs, NotCalibration>>

\* One turn of `for img_set in imgs`: calibrate_with_charuco fails (it
\* must on an empty image set) and the set is skipped, or it succeeds with
\* the corner IDs of the frames it kept.
CalSingle ==
    /\ pc = "cal_single"
    /\ camera_i < Len(imgs)
    /\ camera_i' = camera_i + 1
    /\ \/ UNCHANGED <<camera_matrix, charuco_ids>>
       \/ /\ imgs[camera_i + 1] > 0
          /\ \E ids \in SeqsUpTo(CalIdLists, imgs[camera_i + 1]) :
                /\ Len(ids) >= 1
                /\ camera_matrix' = Append(camera_matrix, Intrinsic(camera_i))
                /\ charuco_ids' = Append(charuco_ids, ids)
    /\ UNCHANGED <<pc, outcome, imgs, cameras, common_object_points,
                   common_image_points1, common_image_points2, frame_idx, fs,
                   NotCalibration>>

\* The push of the reference camera: camera_matrix[0] with the rotation and
\* translation of CameraParameters::new.
CalReference ==
    /\ pc = "cal_single"
    /\ camera_i = Len(imgs)
    /\ IF Len(camera_matrix) = 0
       THEN /\ CalEnd("Panic")
            /\ UNCHANGED <<cameras, camera_i>>
       ELSE /\ cameras' = <<[CameraParametersNew EXCEPT
                               !.intrinsic = camera_matrix[1],
                               !.distortion = Distortion(CamOf(camera_matrix[1]))]>>
            /\ camera_i' = 1
            /\ pc' = IF Len(camera_matrix) > 1 THEN "cal_pair" ELSE "cal_return"
            /\ UNCHANGED outcome
    /\ UNCHANGED <<imgs, camera_matrix, charuco_ids, common_object_points,
                   common_image_points1, common_image_points2, frame_idx, fs,
                   NotCalibration>>

\* One turn of `for frame_idx in 0..charuco_ids[0].len()` for the pair
\* (camera 0, camera camera_i).
CalFrame ==
    /\ pc = "cal_pair"
    /\ frame_idx < Len(charuco_ids[1])
    /\ IF frame_idx + 1 > Len(charuco_ids[camera_i + 1])
       THEN /\ CalEnd("Err")
            /\ UNCHANGED <<common_object_points, common_image_points1,
                           common_image_points2, frame_idx>>
       ELSE LET ids_cam1 == charuco_ids[1][frame_idx + 1]
                ids_cam2 == charuco_ids[camera_i + 1][frame_idx + 1]
                common == FindCommonPoints(<<ids_cam1, ids_cam2>>)
                idx_cam1 == CommonPositions(ids_cam1, common)
                idx_cam2 == CommonPositions(ids_cam2, common)
            IN  /\ frame_idx' = frame_idx + 1
                /\ UNCHANGED <<pc, outcome>>
                /\ IF TooFewCommon(common)
                   THEN UNCHANGED <<common_object_points, common_image_points1,
                                    common_image_points2>>
                   ELSE /\ common_object_points' =
                              Append(common_object_points,
                                     SelectRows(ObjectPoints(ids_cam1), idx_cam1))
                        /\ common_image_points1' =
                              Append(common_image_points1,
                                     SelectRows(ImagePoints(CamOf(camera_matrix[1]),
                                                            frame_idx, ids_cam1),
                                                idx_cam1))
                        /\ common_image_points2' =
                              Append(common_image_points2,
                                     SelectRows(ImagePoints(CamOf(camera_matrix[camera_i + 1]),
                                                            frame_idx, ids_cam2),
                                                idx_cam2))
    /\ UNCHANGED <<camera_i, imgs, camera_matrix, charuco_ids, cameras, fs,
                   NotCalibration>>

\* After the frame loop of a pair: imgs[0].get(0)?, stereo_calibrate, and
\* the push of camera camera_i with the pose stereo_calibrate found.
CalStereo ==
    /\ pc = "cal_pair"
    /\ frame_idx = Len(charuco_ids[1])
    /\ LET first == CamOf(camera_matrix[1])
           second == CamOf(camera_matrix[camera_i + 1])
       IN  \/ /\ CalEnd("Err")
              /\ UNCHANGED <<cameras, camera_i, frame_idx, common_object_points,
                             common_image_points1, common_image_points2>>
           \/ /\ imgs[1] > 0
              /\ cameras' = Append(cameras,
                    [intrinsic |-> camera_matrix[camera_i + 1],
                     distortion |-> Distortion(second),
                     rotation |-> StereoMat("R", first, second),
                     translation |-> StereoMat("T", first, second),
                     essential_matrix |-> StereoMat("E", first, second),
                     fundamental_matrix |-> StereoMat("F", first, second)])
              /\ camera_i' = camera_i + 1
              /\ frame_idx' = 0
              /\ common_object_points' = <<>>
              /\ common_image_points1' = <<>>
              /\ common_image_points2' = <<>>
              /\ pc' = IF camera_i + 1 < Len(camera_matrix) THEN "cal_pair"
                       ELSE "cal_return"
              /\ UNCHANGED outcome
    /\ UNCHANGED <<imgs, camera_matrix, charuco_ids, fs, NotCalibration>>

\* calculate_adjacent_camera_distances, whose result is dropped, the debug
\* line that indexes cameras[1] when debug logging is on, and Ok(cameras).
CalReturn ==
    /\ pc = "cal_return"
    /\ \/ CalEnd("Ok")
       \/ /\ Len(cameras) < 2
          /\ CalEnd("Panic")
    /\ UNCHANGED <<camera_i, calVars, fs, NotCalibration>>

\* ------------------------------------------------ the calibration file

\* The key format!("camera_{}_{name}", i).
Key(i, name) == [camera |-> i, name |-> name]

\* FileStorage::write_mat and FileNode::mat: a matrix node and back.
WriteMat(m) == [type_id |-> "opencv-matrix", rows |-> m.rows, cols |-> m.cols,
                data |-> m.data]
ReadMat(node) == Mat(node.rows, node.cols, node.data)

\* fs.get_node(key)?.mat()?: the matrix of the node, the default matrix
\* for a node the file does not have.
NodeMat(file, key) ==
    IF key \in DOMAIN file THEN ReadMat(file[key]) ELSE MatDefault

SavedKeysAll(cams) ==
    {Key(i - 1, n) : i \in 1..Len(cams),
                     n \in {"intrinsic", "distortion", "rotation", "translation"}}

\* The keys save_camera_parameters writes: intrinsic and distortion of
\* every camera, rotation and translation of every camera but the first.
SavedKeys(cams) ==
    {Key(i - 1, n) : i \in 1..Len(cams), n \in {"intrinsic", "distortion"}}
    \cup {Key(i - 1, n) : i \in 2..Len(cams), n \in {"rotation", "translation"}}

\* save_camera_parameters: the file it leaves when no write fails.
SaveCameraParameters(cams) ==
    [k \in SavedKeys(cams) |-> WriteMat(cams[k.camera + 1][k.name])]

RECURSIVE LoadFromAny(_, _, _)
LoadFromAny(file, i, n) ==
    IF i >= n THEN <<>>
    ELSE (IF Key(i, "intrinsic") \in DOMAIN file
          THEN <<[CameraParametersNew EXCEPT
                     !.intrinsic = NodeMat(file, Key(i, "intrinsic")),
                     !.distortion = NodeMat(file, Key(i, "distortion")),
                     !.rotation = IF i > 0 THEN NodeMat(file, Key(i, "rotation")) ELSE @,
                     !.translation = IF i > 0 THEN NodeMat(file, Key(i, "translation"))
                                     ELSE @]>>
          ELSE <<>>) \o LoadFromAny(file, i + 1, n)

\* The loop of load_camera_parameters from camera i on: it ends at the
\* first camera whose intrinsic node is empty.
RECURSIVE LoadFrom(_, _)
LoadFrom(file, i) ==
    IF Key(i, "intrinsic") \notin DOMAIN file THEN <<>>
    ELSE <<[CameraParametersNew EXCEPT
               !.intrinsic = NodeMat(file, Key(i, "intrinsic")),
               !.distortion = NodeMat(file, Key(i, "distortion")),
               !.rotation = IF i > 0 THEN NodeMat(file, Key(i, "rotation")) ELSE @,
               !.translation = IF i > 0 THEN NodeMat(file, Key(i, "translation"))
                               ELSE @]>>
         \o LoadFrom(file, i + 1)

LoadCameraParametersAny(file) ==
    LET loaded == LoadFromAny(file, 0, CalCameras + FileCameras)
    IN  [status |-> IF Len(loaded) = 0 THEN "Err" ELSE "Ok", cameras |-> loaded]

\* load_camera_parameters on a file that opens: an error when no camera
\* was read.
LoadCameraParameters(file) ==
    LET loaded == LoadFrom(file, 0)
    IN  [status |-> IF Len(loaded) = 0 THEN "Err" ELSE "Ok", cameras |-> loaded]

\* The keys a calibration file of up to FileCameras cameras may hold, and
\* the matrix such a file holds under a key.
FileKeys ==
    {Key(i, n) : i \in 0..FileCameras - 1,
                 n \in {"intrinsic", "distortion", "rotation", "translation"}}
FileMat(k) == Mat(3, 3, [kind |-> "file", camera |-> k.camera, name |-> k.name])

\* A camera of a list given to save_camera_parameters: as calibrated
\* against camera 0, or with the pose of CameraParameters::new.
CameraChoices(i) ==
    {[intrinsic |-> Intrinsic(i), distortion |-> Distortion(i),
      rotation |-> r[1], translation |-> r[2],
      essential_matrix |-> MatDefault, fundamental_matrix |-> MatDefault] :
        r \in {<<Eye3, Zeros31>>, <<StereoMat("R", 0, i), StereoMat("T", 0, i)>>}}

\* A list of cameras is about to be saved.
SaveInit ==
    /\ pc = "save_call"
    /\ \E k \in 0..FileCameras : cameras \in [1..k -> UNION {CameraChoices(i) : i \in 0..k - 1}]
    /\ \A i \in 1..Len(cameras) : cameras[i] \in CameraChoices(i - 1)
    /\ fs = <<>>
    /\ imgs = <<>>
    /\ camera_matrix = <<>>
    /\ charuco_ids = <<>>
    /\ common_object_points = <<>>
    /\ common_image_points1 = <<>>
    /\ common_image_points2 = <<>>
    /\ frame_idx = 0
    /\ ply = <<>>
    /\ common_ids = {}
    /\ outcome = ""
    /\ ReconstructionIdle
    /\ ExtIdle

\* A calibration file, with any of the keys of FileKeys, is about to be loaded.
LoadInit ==
    /\ pc = "load_call"
    /\ \E K \in SUBSET FileKeys : fs = [k \in K |-> WriteMat(FileMat(k))]
    /\ cameras = <<>>
    /\ imgs = <<>>
    /\ camera_matrix = <<>>
    /\ charuco_ids = <<>>
    /\ common_object_points = <<>>
    /\ common_image_points1 = <<>>
    /\ common_image_points2 = <<>>
    /\ frame_idx = 0
    /\ ply = <<>>
    /\ common_ids = {}
    /\ outcome = ""
    /\ ReconstructionIdle
    /\ ExtIdle

\* save_camera_parameters, called on a list or by perform_calibration on
\* the cameras calibrate_multiple_with_charuco returned: the file is
\* written, or FileStorage fails.
Save ==
    /\ \/ pc = "save_call"
       \/ pc = "cal_done" /\ outcome = "Ok"
    /\ \/ /\ pc' = "save_done"
          /\ outcome' = "Err"
          /\ UNCHANGED fs
       \/ /\ fs' = SaveCameraParameters(cameras)
          /\ pc' = "load_call"
          /\ outcome' = ""
    /\ UNCHANGED <<camera_i, calVars, NotCalibration>>

\* load_camera_parameters, whose cameras become the calibration data of a
\* reconstruction: FileStorage fails, or the file is read.
Load ==
    /\ pc = "load_call"
    /\ pc' = "load_done"
    /\ \/ /\ outcome' = "ErrOpen"
          /\ UNCHANGED camera_params
       \/ /\ outcome' = LoadCameraParameters(fs).status
          /\ camera_params' = LoadCameraParameters(fs).cameras
    /\ UNCHANGED <<camera_i, calVars, fs, points_2d, matchVars, points_3d,
                   total_errors, sfm_calls, sfm_input, pipeVars, ply, common_ids, extVars>>

CalNext ==
    \/ CalCheck
    \/ CalSingle
    \/ CalReference
    \/ CalFrame
    \/ CalStereo
    \/ CalReturn
    \/ Save
    \/ Load

SpecCal == (CalInit \/ SaveInit \/ LoadInit) /\ [][CalNext]_vars

\* ------------------------ properties of the calibration and its file

\* calibrate_multiple_with_charuco has returned a list of cameras.
CalReturnedCameras == pc = "cal_done" /\ outcome = "Ok" /\ Len(cameras) >= 1

\* load_camera_parameters has returned a list of cameras.
LoadReturnedCameras == pc = "load_done" /\ outcome = "Ok"

\* The first camera of cams has the identity rotation and zero translation.
ReferenceFirst(cams) ==
    /\ cams[1].rotation = Eye3
    /\ cams[1].translation = Zeros31

\* C12: the first camera of every non-empty list calibration or loading
\* returns has the identity rotation and the zero translation; every other
\* camera of a calibrated list has the pose stereo calibration found for it
\* against that first camera, and every other camera of a loaded list the
\* pose the file holds for it, which after a calibration is that same pose.
C12_ReferenceCamera ==
    /\ CalReturnedCameras =>
          /\ ReferenceFirst(cameras)
          /\ \A i \in 2..Len(cameras) :
                LET first == CamOf(cameras[1].intrinsic)
                    second == CamOf(cameras[i].intrinsic)
                IN  /\ cameras[i].rotation = StereoMat("R", first, second)
                    /\ cameras[i].translation = StereoMat("T", first, second)
    /\ LoadReturnedCameras =>
          /\ Len(camera_params) >= 1
          /\ ReferenceFirst(camera_params)
          /\ \A i \in 2..Len(camera_params) :
                /\ camera_params[i].rotation = NodeMat(fs, Key(i - 1, "rotation"))
                /\ camera_params[i].translation = NodeMat(fs, Key(i - 1, "translation"))
                /\ imgs # <<>> =>
                      camera_params[i].rotation =
                          StereoMat("R", CamOf(camera_params[1].intrinsic),
                                    CamOf(camera_params[i].intrinsic))

\* The first image set failed to calibrate, the other two were calibrated,
\* saved and loaded: the reference is the camera of the second image set.
C12_Witness ==
    /\ LoadReturnedCameras
    /\ Len(imgs) = 3
    /\ Len(camera_params) = 2
    /\ CamOf(camera_params[1].intrinsic) = 1
    /\ CamOf(camera_params[2].intrinsic) = 2

\* C13: a calibration of two or more image sets ends successfully, with
\* one camera for each image set whose own calibration succeeded, whichever
\* single-camera or stereo calibrations failed.
C13_FailuresSkipped ==
    (pc = "cal_done" /\ Len(imgs) >= 2) =>
        /\ outcome = "Ok"
        /\ Len(cameras) = Len(camera_matrix)

\* The frames of the current pair, among those gone through, with at least
\* 10 corner IDs common to camera 0 and camera camera_i.
QualifyingFrames ==
    {f \in 1..frame_idx :
        Cardinality(Range(charuco_ids[1][f]) \cap Range(charuco_ids[camera_i + 1][f]))
            >= 10}

\* C14: in the pair loop, each of the three stereo input lists has one
\* entry for every frame gone through with at least 10 common IDs and none
\* for the others, and every entry has one row per common ID.
C14_CommonIdThreshold ==
    pc = "cal_pair" =>
        /\ Len(common_object_points) = Cardinality(QualifyingFrames)
        /\ Len(common_image_points1) = Cardinality(QualifyingFrames)
        /\ Len(common_image_points2) = Cardinality(QualifyingFrames)
        /\ \A e \in 1..Len(common_object_points) :
              /\ common_object_points[e].rows >= 10
              /\ common_image_points1[e].rows = common_object_points[e].rows
              /\ common_image_points2[e].rows = common_object_points[e].rows

\* Two frames of a pair have been gone through: one had 9 common IDs and
\* was skipped, the other had 10 and was entered.
C14_Witness ==
    /\ pc = "cal_pair"
    /\ frame_idx = 2
    /\ Cardinality(QualifyingFrames) = 1
    /\ Len(common_object_points) = 1
    /\ common_object_points[1].rows = 10

\* The index of the first camera whose intrinsic key the file lacks.
RECURSIVE FirstGap(_)
FirstGap(i) == IF Key(i, "intrinsic") \in DOMAIN fs THEN FirstGap(i + 1) ELSE i

\* C16: loading returns exactly the cameras below the first missing
\* intrinsic key, each with the intrinsic matrix of its key, and fails
\* exactly when that is no camera (or the file cannot be opened).
C16_LoadStopsAtFirstGap ==
    pc = "load_done" =>
        /\ outcome \in {"Ok", "Err", "ErrOpen"}
        /\ outcome = "Ok" =>
              /\ Len(camera_params) = FirstGap(0)
              /\ \A i \in 1..Len(camera_params) :
                    camera_params[i].intrinsic = ReadMat(fs[Key(i - 1, "intrinsic")])
        /\ outcome = "Err" <=> (FirstGap(0) = 0 /\ outcome # "ErrOpen")
        /\ outcome # "Ok" => camera_params = <<>>

\* A file with the keys of camera 0 and of camera 2 but no intrinsic of
\* camera 1 was loaded: one camera came back.
C16_Witness ==
    /\ LoadReturnedCameras
    /\ Key(0, "distortion") \in DOMAIN fs
    /\ Key(1, "intrinsic") \notin DOMAIN fs
    /\ Key(1, "rotation") \in DOMAIN fs
    /\ Key(2, "intrinsic") \in DOMAIN fs
    /\ Len(camera_params) = 1

\* C17: the file saved for k >= 1 cameras has the intrinsic and distortion
\* keys of every camera and the rotation and translation keys of every
\* camera but the first, and no other; loading it returns k cameras with
\* the intrinsic and distortion saved and, but for the first, the rotation
\* and translation saved.
C17_CalibrationRoundTrip ==
    (pc \in {"load_call", "load_done"} /\ Len(cameras) >= 1) =>
        /\ DOMAIN fs =
              {Key(i, n) : i \in 0..Len(cameras) - 1, n \in {"intrinsic", "distortion"}}
              \cup {Key(i, n) : i \in 1..Len(cameras) - 1,
                                n \in {"rotation", "translation"}}
        /\ (pc = "load_done" /\ outcome # "ErrOpen") =>
              /\ outcome = "Ok"
              /\ Len(camera_params) = Len(cameras)
              /\ \A i \in 1..Len(cameras) :
                    /\ camera_params[i].intrinsic = cameras[i].intrinsic
                    /\ camera_params[i].distortion = cameras[i].distortion
                    /\ i > 1 => /\ camera_params[i].rotation = cameras[i].rotation
                                /\ camera_params[i].translation = cameras[i].translation

\* Three cameras, the first with a pose other than identity and zero, were
\* saved and loaded.
C17_Witness ==
    /\ LoadReturnedCameras
    /\ imgs = <<>>
    /\ Len(cameras) = 3
    /\ Len(camera_params) = 3
    /\ cameras[1].rotation # Eye3
    /\ cameras[3].rotation # Eye3

\* ------------------------------------------- find_common_points, called

\* The ID lists of the example: two frames sharing 2, 3 and 5, and the
\* first of them in another order with an ID repeated.
ExampleIdLists == {<<1, 2, 3, 5>>, <<2, 3, 5, 8>>, <<5, 3, 2, 1, 5>>}

\* charuco_ids holds the lists given: any lists within the bounds, or two
\* of the example lists.
CommonInit ==
    /\ pc = "common_call"
    /\ \/ charuco_ids \in SeqsUpTo(SeqsUpTo(1..CommonIds, CommonLen), CommonLists)
       \/ charuco_ids \in [1..2 -> ExampleIdLists]
    /\ common_ids = {}
    /\ imgs = <<>>
    /\ camera_matrix = <<>>
    /\ cameras = <<>>
    /\ common_object_points = <<>>
    /\ common_image_points1 = <<>>
    /\ common_image_points2 = <<>>
    /\ frame_idx = 0
    /\ fs = <<>>
    /\ ply = <<>>
    /\ outcome = ""
    /\ ReconstructionIdle
    /\ ExtIdle

CommonCall ==
    /\ pc = "common_call"
    /\ common_ids' = FindCommonPoints(charuco_ids)
    /\ pc' = "common_done"
    /\ outcome' = "Ok"
    /\ UNCHANGED <<camera_i, points_2d, matchVars, triVars, pipeVars, calVars, fs, ply,
                   extVars>>

CommonNext == CommonCall

SpecCommon == CommonInit /\ [][CommonNext]_vars

\* C15: what find_common_points returns is the set of the IDs that occur in
\* every list given, whatever their order and multiplicity in a list and
\* whatever the order of the lists, and the empty set for no list.
C15_CommonIsIntersection ==
    pc = "common_done" =>
        /\ \A x \in 1..8 :
              x \in common_ids <=>
                 /\ Len(charuco_ids) >= 1
                 /\ \A i \in 1..Len(charuco_ids) :
                       \E k \in 1..Len(charuco_ids[i]) : charuco_ids[i][k] = x
        /\ common_ids \subseteq 1..8

\* The lists [1,2,3,5] and [2,3,5,8] gave {2,3,5}.
C15_Witness ==
    /\ pc = "common_done"
    /\ charuco_ids = <<(<<1, 2, 3, 5>>), (<<2, 3, 5, 8>>)>>
    /\ common_ids = {2, 3, 5}

\* ------------------------------------------------ the point-cloud file

DefaultColorBlack == <<0, 0, 0>>

\* `point.color.unwrap_or((128, 128, 128))`
DefaultColor == <<128, 128, 128>>

\* The values `{}` prints for a sequence of numbers, one token each.
Tokens(values) == [k \in 1..Len(values) |-> ToString(values[k])]

\* `let has_color = points_with_color > 0`
HasColor(points) == \E i \in 1..Len(points) : points[i].color # NoColor

PropertyNamesAlwaysColor(has_color) ==
    <<"x", "y", "z", "red", "green", "blue", "confidence">>

\* The names of the properties the header declares, in order.
PropertyNames(has_color) ==
    <<"x", "y", "z">>
    \o (IF has_color THEN <<"red", "green", "blue">> ELSE <<>>)
    \o <<"confidence">>

PropertyType(name) ==
    IF name \in {"red", "green", "blue"} THEN "uchar" ELSE "float"

\* The header lines of the file, each a sequence of words.
PlyHeader(points) ==
    LET names == PropertyNames(HasColor(points))
    IN  <<(<<"ply">>), (<<"format", "ascii", "1.0">>),
          (<<"element", "vertex", ToString(Len(points))>>)>>
        \o [k \in 1..Len(names) |-> <<"property", PropertyType(names[k]), names[k]>>]
        \o <<(<<"end_header">>)>>

\* The data line of one point.
PlyLine(point, has_color) ==
    Tokens(point.xyz)
    \o (IF has_color
        THEN Tokens(IF point.color # NoColor THEN point.color ELSE DefaultColor)
        ELSE <<>>)
    \o Tokens(<<point.confidence>>)

\* save_point_cloud: the lines of the file it writes.
SavePointCloud(points) ==
    PlyHeader(points)
    \o [i \in 1..Len(points) |-> PlyLine(points[i], HasColor(points))]

\* The points a cloud to save is made of: two positions, no colour, a
\* colour or mid-gray itself, confidence 0 or 1.
PlyPoints ==
    {[Point3DNew(xyz, confidence) EXCEPT !.color = color] :
        xyz \in {<<0, 0, 0>>, <<1, -2, 3>>},
        color \in {NoColor, <<10, 20, 30>>, DefaultColor},
        confidence \in {0, ConfidenceOne}}

PlyInit ==
    /\ pc = "ply_call"
    /\ \E points \in SeqsUpTo(PlyPoints, PlyLen) :
          cloud = [points |-> points, timestamp |-> 0]
    /\ ply = <<>>
    /\ outcome = ""
    /\ ExtIdle
    /\ frames = <<>>
    /\ prev_images = <<>>
    /\ prev_points = <<>>
    /\ undistorted_points_2d = <<>>
    /\ files = {}
    /\ current_frame = 0
    /\ total_frames = 0
    /\ lost_tracks = {}
    /\ KnnIdle
    /\ TriIdle
    /\ all_matches = <<>>
    /\ keypoints_list = <<>>
    /\ filtered_matches = <<>>
    /\ points_2d = <<>>
    /\ imgs = <<>>
    /\ camera_matrix = <<>>
    /\ charuco_ids = <<>>
    /\ cameras = <<>>
    /\ common_object_points = <<>>
    /\ common_image_points1 = <<>>
    /\ common_image_points2 = <<>>
    /\ frame_idx = 0
    /\ fs = <<>>
    /\ common_ids = {}

\* save_point_cloud: File::create fails, or the file is written.
PlySave ==
    /\ pc = "ply_call"
    /\ pc' = "ply_done"
    /\ \/ /\ outcome' = "Err"
          /\ UNCHANGED ply
       \/ /\ outcome' = "Ok"
          /\ ply' = SavePointCloud(cloud.points)
    /\ UNCHANGED <<camera_i, points_2d, matchVars, triVars, pipeVars, calVars, fs,
                   common_ids, extVars>>

PlyNext == PlySave

SpecPly == PlyInit /\ [][PlyNext]_vars

\* ------------------------------------ properties of the point-cloud file

\* Reading the file back: the line that ends the header, the property
\* names and the vertex count the header declares, the lines after it, and
\* the value a data line holds for a property.
EndHeader == CHOOSE h \in 1..Len(ply) : ply[h][1] = "end_header"

DeclaredProperties ==
    LET decl == SelectSeq(SubSeq(ply, 1, EndHeader - 1), LAMBDA l : l[1] = "property")
    IN  [k \in 1..Len(decl) |-> decl[k][3]]

DeclaredVertexCount ==
    LET decl == SelectSeq(SubSeq(ply, 1, EndHeader - 1), LAMBDA l : l[1] = "element")
    IN  decl[1][3]

DataLines == SubSeq(ply, EndHeader + 1, Len(ply))

ValueOf(i, name) ==
    DataLines[i][CHOOSE p \in 1..Len(DeclaredProperties) : DeclaredProperties[p] = name]

PlyWritten == pc = "ply_done" /\ outcome = "Ok"

\* The header declares k vertices once, and k lines follow the one
\* end_header line, each with one value per declared property.
PlyWellFormed ==
    /\ Cardinality({h \in 1..Len(ply) : ply[h][1] = "end_header"}) = 1
    /\ Cardinality({h \in 1..EndHeader : ply[h][1] = "element"}) = 1
    /\ DeclaredVertexCount = ToString(Len(cloud.points))
    /\ Len(DataLines) = Len(cloud.points)
    /\ \A i \in 1..Len(DataLines) : Len(DataLines[i]) = Len(DeclaredProperties)

\* Read by property, line i gives the x, y, z and confidence of point i
\* and, when point i has a colour, that colour.
LineMatchesPoint(i) ==
    LET point == cloud.points[i]
    IN  /\ ValueOf(i, "x") = ToString(point.xyz[1])
        /\ ValueOf(i, "y") = ToString(point.xyz[2])
        /\ ValueOf(i, "z") = ToString(point.xyz[3])
        /\ ValueOf(i, "confidence") = ToString(point.confidence)
        /\ point.color # NoColor =>
              /\ ValueOf(i, "red") = ToString(point.color[1])
              /\ ValueOf(i, "green") = ToString(point.color[2])
              /\ ValueOf(i, "blue") = ToString(point.color[3])

\* Line i holds a colour.
LineHasColor(i) ==
    \E p \in 1..Len(DeclaredProperties) : DeclaredProperties[p] = "red"

\* C18: the file written for a cloud of k points declares k vertices and
\* has k well-formed lines after end_header, in cloud order; line i gives
\* the x, y, z and confidence of point i and the colour of point i when it
\* has one; a point without colour comes back without colour only when no
\* point of the cloud has a colour.
C18_PlyRoundTrip ==
    PlyWritten =>
        /\ PlyWellFormed
        /\ \A i \in 1..Len(cloud.points) :
              /\ LineMatchesPoint(i)
              /\ cloud.points[i].color = NoColor =>
                    (LineHasColor(i) <=> HasColor(cloud.points))

\* C18 as stated: every line gives back the x, y, z, confidence and colour
\* of its point, so the line of a point without colour holds no colour.
C18_PlyRoundTripExact ==
    PlyWritten =>
        /\ PlyWellFormed
        /\ \A i \in 1..Len(cloud.points) :
              /\ LineMatchesPoint(i)
              /\ cloud.points[i].color = NoColor => ~LineHasColor(i)

\* A cloud of a point without colour followed by a coloured point at
\* another position was written.
C18_Witness ==
    /\ PlyWritten
    /\ Len(cloud.points) = 2
    /\ cloud.points[1].color = NoColor
    /\ cloud.points[2].color = <<10, 20, 30>>
    /\ cloud.points[1].xyz # cloud.points[2].xyz
    /\ Len(ply) = 13

\* C19: the header declares red, green and blue, and every data line holds
\* a colour triple, exactly when some point of the cloud has a colour; then
\* the line of a point without colour holds 128 128 128, and otherwise
\* every line holds x, y, z and confidence only.
C19_ColorOnlyIfSomePointHasIt ==
    PlyWritten =>
        LET some == \E i \in 1..Len(cloud.points) : cloud.points[i].color # <<>>
            declared == {DeclaredProperties[k] : k \in 1..Len(DeclaredProperties)}
        IN  /\ some => {"red", "green", "blue"} \subseteq declared
            /\ ~some => {"red", "green", "blue"} \cap declared = {}
            /\ \A i \in 1..Len(DataLines) :
                  /\ Len(DataLines[i]) = IF some THEN 7 ELSE 4
                  /\ (some /\ cloud.points[i].color = <<>>) =>
                        SubSeq(DataLines[i], 4, 6) = <<"128", "128", "128">>

\* A cloud of a coloured point and a point without colour was written: the
\* second line holds the mid-gray triple.
C19_Witness ==
    /\ PlyWritten
    /\ Len(cloud.points) = 2
    /\ cloud.points[1].color = <<10, 20, 30>>
    /\ cloud.points[2].color = NoColor
    /\ SubSeq(ply[Len(ply)], 4, 6) = <<"128", "128", "128">>

\* ------------------------------ grouping the calibration images by camera

\* A file name is the sequence of its characters.
Digits == <<"0", "1", "2", "3", "4", "5", "6", "7", "8", "9">>

IsDigit(ch) == \E d \in 1..Len(Digits) : Digits[d] = ch

DigitValue(ch) == (CHOOSE d \in 1..Len(Digits) : Digits[d] = ch) - 1

RECURSIVE Decimal(_)
Decimal(n) ==
    IF n < 10 THEN <<Digits[n + 1]>>
    ELSE Decimal(n \div 10) \o <<Digits[(n % 10) + 1]>>

ImgPrefix == <<"i", "m", "g", "_">>
PngSuffix == <<".", "p", "n", "g">>

\* format!("img_{}_{}.png", ..) as the capture application names its files.
ImgName(cam, frame) == ImgPrefix \o cam \o <<"_">> \o frame \o PngSuffix

\* str::starts_with and str::ends_with
StartsWith(str, pat) == Len(str) >= Len(pat) /\ SubSeq(str, 1, Len(pat)) = pat

EndsWith(str, pat) ==
    Len(str) >= Len(pat) /\ SubSeq(str, Len(str) - Len(pat) + 1, Len(str)) = pat

\* str::split(ch): the pieces between the occurrences of ch.
RECURSIVE Split(_, _)
Split(str, ch) ==
    IF \A k \in 1..Len(str) : str[k] # ch THEN <<str>>
    ELSE LET k == CHOOSE h \in 1..Len(str) :
                      str[h] = ch /\ \A g \in 1..h - 1 : str[g] # ch
         IN  <<SubSeq(str, 1, k - 1)>> \o Split(SubSeq(str, k + 1, Len(str)), ch)

\* str::trim_end_matches(pat): pat is taken off the end as often as it is there.
RECURSIVE TrimEndMatches(_, _)
TrimEndMatches(str, pat) ==
    IF EndsWith(str, pat) THEN TrimEndMatches(SubSeq(str, 1, Len(str) - Len(pat)), pat)
    ELSE str

RECURSIVE DecimalValue(_)
DecimalValue(digits) ==
    IF digits = <<>> THEN 0
    ELSE 10 * DecimalValue(SubSeq(digits, 1, Len(digits) - 1))
         + DigitValue(digits[Len(digits)])

\* str::parse::<usize>: an optional plus sign, then one decimal digit or
\* more and nothing else.
ParseUsize(str) ==
    LET digits == IF str # <<>> /\ str[1] = "+" THEN Tail(str) ELSE str
        ok == digits # <<>> /\ \A k \in 1..Len(digits) : IsDigit(digits[k])
    IN  [ok |-> ok, value |-> IF ok THEN DecimalValue(digits) ELSE 0]

\* The nested conditions of the grouping loop: whether file_name is taken
\* for a calibration image, and the camera and frame numbers parsed from it.
ParseFileName(file_name) ==
    LET parts == Split(file_name, "_")
        none == [matches |-> FALSE, cam_num |-> 0, frame_num |-> 0]
    IN  IF ~(StartsWith(file_name, ImgPrefix) /\ EndsWith(file_name, PngSuffix)) THEN none
        ELSE IF Len(parts) # 3 THEN none
        ELSE IF ~ParseUsize(parts[2]).ok THEN none
        ELSE IF ~ParseUsize(TrimEndMatches(parts[3], PngSuffix)).ok THEN none
        ELSE [matches |-> TRUE,
              cam_num |-> ParseUsize(parts[2]).value,
              frame_num |-> ParseUsize(TrimEndMatches(parts[3], PngSuffix)).value]

\* The image imread returns for the file of that name.
ImRead(file_name) == [file |-> file_name]

\* The file names that may lie in the directory: the images of every camera
\* and capture, an image numbered camera 0, one numbered one above the
\* configured count, and two names that are not of the form.
GroupNames ==
    {ImgName(Decimal(c), Decimal(f)) : c \in 1..GroupCameras, f \in 1..GroupFrames}
    \cup {ImgName(Decimal(0), Decimal(1)),
          ImgName(Decimal(GroupCameras + 1), Decimal(1)),
          ImgName(<<"x">>, Decimal(1)),
          <<"n", "o", "t", "e", "s", ".", "t", "x", "t">>}

\* The subsequences of a sequence: the elements at the positions mask keeps.
RECURSIVE KeepMasked(_, _)
KeepMasked(seq, mask) ==
    IF seq = <<>> THEN <<>>
    ELSE (IF Head(mask) THEN <<Head(seq)>> ELSE <<>>)
         \o KeepMasked(Tail(seq), Tail(mask))

SubSequences(seq) == {KeepMasked(seq, mask) : mask \in [1..Len(seq) -> BOOLEAN]}

\* The state of the calibration library's own model, left untouched here.
CalibrationIdle ==
    /\ imgs = <<>>
    /\ camera_matrix = <<>>
    /\ charuco_ids = <<>>
    /\ cameras = <<>>
    /\ common_object_points = <<>>
    /\ common_image_points1 = <<>>
    /\ common_image_points2 = <<>>
    /\ fs = <<>>
    /\ ply = <<>>
    /\ common_ids = {}

\* perform_calibration called on a directory read_dir can enumerate in any order.
GroupInit ==
    /\ pc = "group_loop"
    /\ dir_entries \in {d \in SeqsUpTo(GroupNames, DirLen) :
                           \A a, b \in 1..Len(d) : a # b => d[a] # d[b]}
    /\ num_cameras = GroupCameras
    /\ entry_i = 0
    /\ camera_images = [c \in 1..num_cameras |-> <<>>]
    /\ all_charuco_ids = <<>>
    /\ paired = {}
    /\ tracked = {}
    /\ GuiIdle
    /\ frame_idx = 0
    /\ outcome = ""
    /\ CalibrationIdle
    /\ ReconstructionIdle

NotGroup == <<points_2d, matchVars, triVars, pipeVars, imgs, camera_matrix, charuco_ids,
              cameras, common_object_points, common_image_points1,
              common_image_points2, fs, ply, common_ids, tracked, guiVars>>

GroupEnd(how) ==
    /\ pc' = "group_done"
    /\ outcome' = how

\* One turn of `for entry in dir_entries`: a name that is not of the form,
\* or whose file imread fails on, is passed over; otherwise the image is
\* pushed to camera_images[cam_num - 1], which panics when cam_num is 0
\* (the subtraction overflows, or wraps to an index out of bounds) or
\* above num_cameras.
GroupEntry ==
    /\ pc = "group_loop"
    /\ entry_i < Len(dir_entries)
    /\ LET file_name == dir_entries[entry_i + 1]
           parsed == ParseFileName(file_name)
       IN  \E read \in BOOLEAN :
             IF ~(parsed.matches /\ read)
             THEN /\ entry_i' = entry_i + 1
                  /\ UNCHANGED <<pc, outcome, camera_images>>
             ELSE IF parsed.cam_num - 1 \in 0..num_cameras - 1
             THEN /\ camera_images' =
                        [camera_images EXCEPT
                            ![parsed.cam_num] = Append(@, ImRead(file_name))]
                  /\ entry_i' = entry_i + 1
                  /\ UNCHANGED <<pc, outcome>>
             ELSE /\ GroupEnd("Panic")
                  /\ UNCHANGED <<entry_i, camera_images>>
    /\ UNCHANGED <<camera_i, frame_idx, dir_entries, num_cameras, all_charuco_ids, paired,
                   NotGroup>>

\* calibrate_multiple_with_charuco(&camera_images, ..) is entered.
GroupCalibrate ==
    /\ pc = "group_loop"
    /\ entry_i = Len(dir_entries)
    /\ IF Len(camera_images) < 2
       THEN GroupEnd("Ok") /\ UNCHANGED camera_i
       ELSE pc' = "group_single" /\ camera_i' = 0 /\ UNCHANGED outcome
    /\ UNCHANGED <<frame_idx, groupVars, NotGroup>>

\* One turn of `for img_set in imgs`: calibrate_with_charuco fails (it must
\* when the set is empty or no image of it shows the board) and the camera
\* is passed over, or it succeeds and the detections it kept, in the order
\* of the images, are pushed.
GroupSingle ==
    /\ pc = "group_single"
    /\ camera_i < Len(camera_images)
    /\ camera_i' = camera_i + 1
    /\ \/ UNCHANGED all_charuco_ids
       \/ \E kept \in SubSequences(camera_images[camera_i + 1]) :
             /\ kept # <<>>
             /\ all_charuco_ids' = Append(all_charuco_ids, kept)
    /\ UNCHANGED <<pc, outcome, frame_idx, dir_entries, num_cameras, entry_i,
                   camera_images, paired, NotGroup>>

\* The push of the reference camera, which indexes camera_matrix[0].
GroupReference ==
    /\ pc = "group_single"
    /\ camera_i = Len(camera_images)
    /\ IF all_charuco_ids = <<>>
       THEN GroupEnd("Panic") /\ UNCHANGED camera_i
       ELSE pc' = "group_pair" /\ camera_i' = 1 /\ UNCHANGED outcome
    /\ UNCHANGED <<frame_idx, groupVars, NotGroup>>

\* One turn of `for frame_idx in 0..charuco_ids[0].len()` for camera i:
\* charuco_ids[i].get(frame_idx)? returns the error when camera i kept
\* fewer detections; otherwise the two detections at that position are
\* intersected.
GroupFrame ==
    /\ pc = "group_pair"
    /\ camera_i < Len(all_charuco_ids)
    /\ frame_idx < Len(all_charuco_ids[1])
    /\ IF frame_idx >= Len(all_charuco_ids[camera_i + 1])
       THEN /\ GroupEnd("Err")
            /\ UNCHANGED <<frame_idx, paired>>
       ELSE /\ paired' = paired \cup {<<all_charuco_ids[1][frame_idx + 1],
                                         all_charuco_ids[camera_i + 1][frame_idx + 1]>>}
            /\ frame_idx' = frame_idx + 1
            /\ UNCHANGED <<pc, outcome>>
    /\ UNCHANGED <<camera_i, dir_entries, num_cameras, entry_i, camera_images,
                   all_charuco_ids, NotGroup>>

\* After the frames of camera i: imgs[0].get(0)? and stereo_calibrate(..)?
\* return their error, or the camera is pushed and the next one is turned to.
GroupStereo ==
    /\ pc = "group_pair"
    /\ camera_i < Len(all_charuco_ids)
    /\ frame_idx = Len(all_charuco_ids[1])
    /\ \/ /\ GroupEnd("Err")
          /\ UNCHANGED <<camera_i, frame_idx>>
       \/ /\ camera_images[1] # <<>>
          /\ camera_i' = camera_i + 1
          /\ frame_idx' = 0
          /\ UNCHANGED <<pc, outcome>>
    /\ UNCHANGED <<groupVars, NotGroup>>

\* The end of calibrate_multiple_with_charuco: the debug line that indexes
\* cameras[1] when debug logging is on, and Ok(cameras).
GroupReturn ==
    /\ pc = "group_pair"
    /\ camera_i = Len(all_charuco_ids)
    /\ \/ GroupEnd("Ok")
       \/ /\ Len(all_charuco_ids) < 2
          /\ GroupEnd("Panic")
    /\ UNCHANGED <<camera_i, frame_idx, groupVars, NotGroup>>

GroupNext ==
    \/ GroupEntry
    \/ GroupCalibrate
    \/ GroupSingle
    \/ GroupReference
    \/ GroupFrame
    \/ GroupStereo
    \/ GroupReturn

SpecGroup == GroupInit /\ [][GroupNext]_vars

\* ----------------------------------------- properties of the grouping

\* The camera and the capture a grouped image is named after.
CamOfImage(img) == ParseFileName(img.file).cam_num

FrameOfImage(img) == ParseFileName(img.file).frame_num

\* The grouping loop ended in a panic before the directory was through.
GroupingCrashed ==
    pc = "group_done" /\ outcome = "Panic" /\ entry_i < Len(dir_entries)

\* C21: perform_calibration places every file named img_<camera>_<frame>.png
\* in the image list of the camera its name gives, passes over every other
\* file, and no file name of the directory (camera 0 and one above the
\* configured count included) makes the grouping fail or crash.
C21_GroupingNeverFails ==
    /\ ~GroupingCrashed
    /\ \A c \in 1..Len(camera_images) : \A k \in 1..Len(camera_images[c]) :
          /\ ParseFileName(camera_images[c][k].file).matches
          /\ CamOfImage(camera_images[c][k]) = c
    /\ \A e \in 1..entry_i :
          ~ParseFileName(dir_entries[e]).matches =>
              \A c \in 1..Len(camera_images) :
                  ImRead(dir_entries[e]) \notin Range(camera_images[c])

\* The pair loop stopped with the error of charuco_ids[i].get(frame_idx).
PairingFailed ==
    /\ pc = "group_done"
    /\ outcome = "Err"
    /\ camera_i < Len(all_charuco_ids)
    /\ frame_idx < Len(all_charuco_ids[1])

\* C23: for camera i the pair loop intersects a detection of camera 0 only
\* with the detection of camera i from the same capture, in whatever order
\* the files are enumerated and whichever frames were dropped for lack of
\* detections, and a frame one camera's list lacks is left unpaired
\* without an error.
C23_SameCapturePaired ==
    /\ \A p \in paired : FrameOfImage(p[1]) = FrameOfImage(p[2])
    /\ ~PairingFailed

\* ----------------------------------- the tracker's temporal dependency

\* img is what read_frames left for camera c (counted from 1) at frame f:
\* the image of that frame, or the empty Mat of a read that grabbed nothing.
ReadAtFrame(img, c, f) ==
    /\ img.cam = c - 1
    /\ IsEmptyImage(img) \/ img.frame = f

\* Every point of pts is a raw (not undistorted) position in frame f.
RawPointsOfFrame(pts, f) ==
    \A j \in 1..Len(pts) : pts[j].frame = f /\ ~pts[j].und

ColorAt(img, pt) == <<img, pt>>

\* C25: at a frame t >= 1 every coloured point of the cloud has the colour
\* of the reference camera's image of frame t at the position the point is
\* tracked to in frame t in the reference camera, not at its position in
\* frame 0.
C25_ColorAtTrackedPosition ==
    (pc = "save" /\ current_frame >= 1) =>
        \A i \in 1..Len(cloud.points) :
            cloud.points[i].color # NoColor =>
                /\ cloud.points[i].color[1] = frames[1]
                /\ cloud.points[i].color[2].cam = 0
                /\ cloud.points[i].color[2].frame = current_frame

\* The rows of the triangulated points that reach the threshold.
ConfidentRows ==
    {i \in 1..Len(points_3d) :
        points_3d[i].confidence * 100 >= ConfidenceThreshold * ConfidenceOne}

\* C26: in every frame the cloud is coloured before it is filtered, while
\* point k is still row k of the reference camera's table: colouring
\* changes nothing but the colour field and neither the number nor the
\* order of the points, so the cloud left by the filter holds the confident
\* points in order, each unchanged but for the colour, and that colour is
\* the one sampled for the point's own row.
C26_ColorBeforeFilter ==
    [][pc = "cloud" =>
          /\ Len(cloud'.points) = Cardinality(ConfidentRows)
          /\ \E row \in [1..Len(cloud'.points) -> ConfidentRows] :
                /\ \A a, b \in 1..Len(cloud'.points) : a < b => row[a] < row[b]
                /\ \A k \in 1..Len(cloud'.points) :
                      \/ cloud'.points[k] = points_3d[row[k]]
                      \/ cloud'.points[k] =
                            [points_3d[row[k]] EXCEPT
                                !.color = ColorAt(frames[1], points_2d[1].data[row[k]])]]_vars

\* C26 witness: of two triangulated points the first fell below the
\* threshold and the second was kept, with the colour of the second row of
\* the reference camera's table.
C26_Witness ==
    /\ pc = "save"
    /\ points_2d[1].rows = 2
    /\ Len(cloud.points) = 1
    /\ cloud.points[1].color = ColorAt(frames[1], points_2d[1].data[2])
    /\ cloud.points[1].xyz[1].kp = points_2d[1].data[2].kp

\* ------------------------------------ failures of detection and matching

\* match_first_camera_features_to_all has returned.
FeaturesReturned == pc \notin {"start", "correspond"}

\* C27: a SIFT failure for one camera or a matcher failure for one pair is
\* not swallowed: when match_first_camera_features_to_all has returned for C
\* images, the keypoint and descriptor lists have C entries, entry i being
\* of image i, so that no camera's data sits at another camera's index.
C27_FailuresNotSwallowed ==
    FeaturesReturned =>
        /\ Len(descriptors_list) = Len(frames)
        /\ Len(keypoints_list) = Len(frames)
        /\ \A i \in 1..Len(descriptors_list) : descriptors_list[i].cam = i - 1

\* ------------------------------- the per-camera steps taken in any order

\* A run of at least one tracked frame with as many videos as cameras.
AnyOrderInit ==
    /\ Init
    /\ total_frames = 2
    /\ Len(frames) = Len(camera_params)

\* The body of the loop over the cameras, exactly as in PipeTrackCamera,
\* run for any camera c whose step of this frame has not run yet.
PipeTrackAny ==
    /\ pc = "track"
    /\ \E c \in (1..Len(frames)) \ tracked :
          \/ /\ \/ IsEmptyImage(prev_images[c])
                \/ IsEmptyImage(frames[c])
                \/ Len(prev_points[c]) = 0
             /\ PipeEnd("Panic")
             /\ UNCHANGED <<prev_points, undistorted_points_2d, lost_tracks, tracked>>
          \/ /\ PipeEnd("Err")
             /\ UNCHANGED <<prev_points, undistorted_points_2d, lost_tracks, tracked>>
          \/ \E status \in [1..Len(prev_points[c]) -> {0, 1}] :
                LET next_points == NextPoints(prev_points[c], status, current_frame)
                    points_mat == VectorPoint2fToMat(next_points)
                IN  /\ undistorted_points_2d' =
                          Append(undistorted_points_2d,
                                 UndistortPointsSingleCamera(points_mat))
                    /\ prev_points' = [prev_points EXCEPT ![c] = next_points]
                    /\ lost_tracks' = lost_tracks \cup LostRows(status)
                    /\ IF tracked \cup {c} = 1..Len(frames)
                       THEN pc' = "triangulate" /\ tracked' = {}
                       ELSE pc' = "track" /\ tracked' = tracked \cup {c}
                    /\ UNCHANGED outcome
    /\ UNCHANGED <<camera_i, points_2d, matchVars, triVars, frames, prev_images, cloud,
                   files, current_frame, total_frames>>
    /\ UNCHANGED <<calVars, fs, ply, common_ids, groupVars, guiVars>>

AnyOrderNext ==
    \/ PipeStart
    \/ PipeCorrespond
    \/ PipeUndistort0
    \/ PipeTriangulate
    \/ PipeCloud
    \/ PipeSave
    \/ PipeReadFrames
    \/ PipeTrackAny

SpecAnyOrder == AnyOrderInit /\ [][AnyOrderNext]_vars

\* The table the step of camera c hands to the triangulation: camera c's
\* points of the current frame, undistorted.
TableOfCamera(c) ==
    Mat(Len(prev_points[c]), 2,
        [j \in 1..Len(prev_points[c]) |-> [prev_points[c][j] EXCEPT !.und = TRUE]])

\* Every camera of a tracked frame has had its step.
AllTracked == pc = "triangulate" /\ current_frame >= 1

\* C28, as far as it holds: the step of camera c reads camera c's images,
\* points and parameters only and replaces camera c's points only, so in any
\* order every camera ends the frame with the same points and the same
\* table; but the step appends its table to the shared triangulation
\* input, so that input holds the tables in the order the steps ran, one per
\* camera.
C28_StepsIndependentButOrdered ==
    /\ pc = "track" =>
          /\ Len(undistorted_points_2d) = Cardinality(tracked)
          /\ \A c \in 1..Len(prev_points) :
                RawPointsOfFrame(prev_points[c],
                                 IF c \in tracked THEN current_frame
                                 ELSE current_frame - 1)
    /\ AllTracked =>
          /\ \A c \in 1..Len(prev_points) :
                RawPointsOfFrame(prev_points[c], current_frame)
          /\ \E order \in [1..Len(frames) -> 1..Len(frames)] :
                /\ \A a, b \in 1..Len(frames) : a # b => order[a] # order[b]
                /\ undistorted_points_2d =
                      [k \in 1..Len(frames) |-> TableOfCamera(order[k])]

\* C28 as stated: whatever the order of the per-camera steps, the
\* triangulation input is that of the sequential order, the table of
\* camera c in slot c.
C28_AnyOrderSameInput ==
    AllTracked =>
        undistorted_points_2d = [c \in 1..Len(frames) |-> TableOfCamera(c)]

\* C28 witness: the steps of a tracked frame ran camera 1 first, and its
\* table is in the slot of camera 0.
C28_Witness ==
    /\ AllTracked
    /\ Len(frames) = 2
    /\ undistorted_points_2d[1].rows >= 1
    /\ undistorted_points_2d = <<TableOfCamera(2), TableOfCamera(1)>>

\* ------------------------- the pair loop on detections in any ID order

Reverse(seq) == [k \in 1..Len(seq) |-> seq[Len(seq) + 1 - k]]

\* The ID lists the detector may give for a frame: those of CalIdLists in
\* increasing order, in decreasing order, and with the first ID moved last.
PairIdLists ==
    CalIdLists
    \cup {Reverse(ids) : ids \in CalIdLists}
    \cup {Tail(ids) \o <<Head(ids)>> : ids \in CalIdLists}

\* calibrate_multiple_with_charuco after its loop over the image sets: one
\* or two cameras calibrated, each with the ID lists of the same frames.
PairInit ==
    /\ pc = "cal_single"
    /\ \E count \in 1..2, n \in 1..PairFrames :
          /\ camera_i = count
          /\ imgs = [c \in 1..count |-> n]
          /\ charuco_ids \in [1..count -> [1..n -> PairIdLists]]
          /\ camera_matrix = [c \in 1..count |-> Intrinsic(c - 1)]
    /\ cameras = <<>>
    /\ common_object_points = <<>>
    /\ common_image_points1 = <<>>
    /\ common_image_points2 = <<>>
    /\ frame_idx = 0
    /\ fs = <<>>
    /\ ply = <<>>
    /\ common_ids = {}
    /\ outcome = ""
    /\ descriptors_list = <<>>
    /\ matched_descriptors = <<>>
    /\ all_matches = <<>>
    /\ keypoints_list = <<>>
    /\ filtered_matches = <<>>
    /\ points_2d = <<>>
    /\ TriIdle
    /\ PipeIdle
    /\ ExtIdle

PairNext ==
    \/ CalReference
    \/ CalFrame
    \/ CalStereo
    \/ CalReturn

SpecPair == PairInit /\ [][PairNext]_vars

\* The IDs camera 0 and camera camera_i share in the frame that entry e of
\* the stereo input was selected from.
CommonOfEntry(e) ==
    LET f == common_image_points1[e].data[1].frame
    IN  Range(charuco_ids[1][f + 1]) \cap Range(charuco_ids[camera_i + 1][f + 1])

\* C24: for every frame kept for a camera pair the object points, the
\* image points of camera 0 and the image points of camera i have the same
\* number of rows, the size of the common-ID set, and row k of all three
\* is of the same fiducial ID, whatever the order of the IDs in the two
\* detection lists.
C24_RowsAlignedById ==
    pc = "cal_pair" =>
        \A e \in 1..Len(common_object_points) :
            LET obj == common_object_points[e]
                img1 == common_image_points1[e]
                img2 == common_image_points2[e]
            IN  /\ obj.rows = Cardinality(CommonOfEntry(e))
                /\ img1.rows = obj.rows
                /\ img2.rows = obj.rows
                /\ \A k \in 1..obj.rows :
                      /\ obj.data[k].board = img1.data[k].id
                      /\ obj.data[k].board = img2.data[k].id

\* ------------------------------------------- the application window

\* Option<T>: None and Some(x).
None == <<>>
Some(x) == <<x>>
IsSome(option) == option # None

\* The videos pick_from_4_combined_video splits a combined video into.
Quadrants == 4

\* CalibrationData::new
CalibrationDataNew(camera_count) == [num_cameras |-> camera_count]

\* VideoData::new: num_cams slots, the one of cam_i filled. A slot is TRUE
\* when it holds a path.
VideoDataNew(cam_i, num_cams) ==
    [video_files |-> [c \in 1..num_cams |-> c = cam_i + 1]]

\* VideoData::from_vec: an error without a first file, with an empty first
\* slot, or when the first video cannot be opened.
VideoDataFromVec(video_files, readable) ==
    IF Len(video_files) = 0 \/ ~video_files[1] \/ ~readable THEN None
    ELSE Some([video_files |-> video_files])

\* What load_camera_parameters may give the application: an error, or the
\* cameras of the file, of which there is at least one.
LoadedParameters == {None} \cup {Some(CalibrationDataNew(n)) : n \in 1..GuiCameras}

FetchedStateReady == "ReadyToProcess"

\* The state fetch_project leaves the application in.
FetchedState == "SetupMenu"

\* `is_enabled` of button_start_reconstruction
IsEnabled ==
    /\ IsSome(calibration_data)
    /\ IsSome(video_data)
    /\ \A c \in 1..Len(video_data[1].video_files) : video_data[1].video_files[c]

\* ReconstructionApp::default()
GuiInit ==
    /\ pc = "gui"
    /\ pipeline_state = "FolderSetup"
    /\ project_path = None
    /\ calibration_data = None
    /\ video_data = None
    /\ outcome = ""
    /\ frame_idx = 0
    /\ tracked = {}
    /\ GroupIdle
    /\ CalibrationIdle
    /\ ReconstructionIdle

NotGui == <<camera_i, points_2d, matchVars, triVars, pipeVars, calVars, fs, ply,
            common_ids, groupVars, tracked>>

\* A panic ends the application.
GuiPanic ==
    /\ pc' = "gui_crashed"
    /\ outcome' = "Panic"

\* render_folder_setup when the button is clicked and a folder is picked;
\* a cancelled dialog changes nothing.
RenderFolderSetup ==
    /\ pipeline_state = "FolderSetup"
    /\ project_path' = Some("project")
    /\ calibration_data' = None
    /\ video_data' = None
    /\ pipeline_state' = "FetchProject"
    /\ UNCHANGED <<pc, outcome>>

\* fetch_project: fetch_camera_params keeps what camera_parameters.yml of
\* the project loads to, if it is there; fetch_video_data takes every file
\* of data/video for a video.
FetchProject ==
    /\ pipeline_state = "FetchProject"
    /\ calibration_data' \in LoadedParameters
    /\ \E found \in 0..GuiVideos, readable \in BOOLEAN :
          video_data' = VideoDataFromVec([c \in 1..found |-> TRUE], readable)
    /\ pipeline_state' = FetchedState
    /\ UNCHANGED <<pc, outcome, project_path>>

\* render_camera_parameters_setup when its button is clicked:
\* pick_camera_parameters_file keeps the parameters loaded from the picked
\* file (none when the dialog, the copy or the loading fails); when
\* parameters were there before, the videos are dropped if their number
\* differs from num_cam, the camera count read before the pick.
RenderCameraParametersSetup ==
    /\ pipeline_state = "SetupMenu"
    /\ \E picked \in LoadedParameters :
          calibration_data' = IF IsSome(picked) THEN picked ELSE calibration_data
    /\ IF IsSome(calibration_data)
       THEN LET num_cam == calibration_data[1].num_cameras
            IN  video_data' =
                   IF IsSome(video_data) /\ Len(video_data[1].video_files) # num_cam
                   THEN None ELSE video_data
       ELSE UNCHANGED video_data
    /\ UNCHANGED <<pc, outcome, pipeline_state, project_path>>

\* pick_camera_video(cam_num) through one of the buttons render_video_setup
\* shows, once a video is picked and copied: the slot of cam_num is filled
\* (an index beyond video_files panics), or VideoData::new makes the slots.
PickCameraVideo ==
    /\ pipeline_state = "SetupMenu"
    /\ IsSome(calibration_data)
    /\ \E cam_num \in 0..calibration_data[1].num_cameras - 1 :
          IF IsSome(video_data)
          THEN IF cam_num + 1 > Len(video_data[1].video_files)
               THEN GuiPanic /\ UNCHANGED video_data
               ELSE /\ video_data' =
                          Some([video_files |->
                                   [video_data[1].video_files EXCEPT ![cam_num + 1] = TRUE]])
                    /\ UNCHANGED <<pc, outcome>>
          ELSE /\ video_data' =
                     Some(VideoDataNew(cam_num, calibration_data[1].num_cameras))
               /\ UNCHANGED <<pc, outcome>>
    /\ UNCHANGED <<pipeline_state, project_path, calibration_data>>

\* pick_from_4_combined_video when the video is picked and split.
PickFrom4CombinedVideo ==
    /\ pipeline_state = "SetupMenu"
    /\ video_data' = VideoDataFromVec([c \in 1..Quadrants |-> TRUE], TRUE)
    /\ UNCHANGED <<pc, outcome, pipeline_state, project_path, calibration_data>>

\* button_start_reconstruction clicked while enabled: run_pipeline returns,
\* its result dropped, or panics.
ButtonStartReconstruction ==
    /\ pipeline_state = "SetupMenu"
    /\ IsEnabled
    /\ \/ outcome' \in {"Ok", "Err"} /\ UNCHANGED pc
       \/ GuiPanic
    /\ UNCHANGED guiVars

\* render_content: the handler of the current state; that of
\* ReadyToProcess is todo!().
RenderContent ==
    /\ pc = "gui"
    /\ IF pipeline_state = "ReadyToProcess"
       THEN GuiPanic /\ UNCHANGED guiVars
       ELSE \/ RenderFolderSetup
            \/ FetchProject
            \/ RenderCameraParametersSetup
            \/ PickCameraVideo
            \/ PickFrom4CombinedVideo
            \/ ButtonStartReconstruction
    /\ UNCHANGED NotGui

GuiNext == RenderContent

SpecGui == GuiInit /\ [][GuiNext]_vars

\* ------------------------------------- properties of the application

\* C29: whenever the start button is enabled, calibration data is loaded,
\* every video slot holds a file and there are as many video files as
\* calibrated cameras, after any sequence of folder selection, project
\* fetch, parameter selection or change, video selection and splitting of
\* a combined video.
C29_StartNeedsMatchingVideos ==
    (pipeline_state = "SetupMenu" /\ IsEnabled) =>
        /\ IsSome(calibration_data)
        /\ \A c \in 1..Len(video_data[1].video_files) : video_data[1].video_files[c]
        /\ Len(video_data[1].video_files) = calibration_data[1].num_cameras

\* C30: the application is in FolderSetup, FetchProject or SetupMenu and
\* never in ReadyToProcess; the project path is set in FetchProject and in
\* SetupMenu; FolderSetup is left only for FetchProject, FetchProject only
\* and always for SetupMenu, and SetupMenu never.
C30_StateOrder ==
    /\ [](/\ pipeline_state \in {"FolderSetup", "FetchProject", "SetupMenu"}
          /\ pipeline_state \in {"FetchProject", "SetupMenu"} => IsSome(project_path))
    /\ [][/\ pipeline_state = "FolderSetup" =>
                pipeline_state' \in {"FolderSetup", "FetchProject"}
          /\ pipeline_state = "FetchProject" => pipeline_state' = "SetupMenu"
          /\ pipeline_state = "SetupMenu" => pipeline_state' = "SetupMenu"]_vars

\* C30 witness: the setup menu has been reached and worked in: parameters
\* are loaded and a video has been picked for one of two cameras.
C30_Witness ==
    /\ pipeline_state = "SetupMenu"
    /\ IsSome(project_path)
    /\ IsSome(calibration_data)
    /\ calibration_data[1].num_cameras = 2
    /\ IsSome(video_data)
    /\ video_data[1].video_files = <<FALSE, TRUE>>

====
